---------------------------- MODULE Spec2Model ----------------------------
(***************************************************************************)
(* A model of the hron schedule evaluator (rust/hron/src/eval.rs): the     *)
(* calendar arithmetic it takes from the date library, the zone's wall     *)
(* clock resolution, the seven variant generators, the until / during /    *)
(* except filter loop of next_from, matches, and the Occurrences and       *)
(* BoundedOccurrences iterators.                                           *)
(*                                                                         *)
(* A civil date is the number of days since 1970-01-01.  A zoned instant   *)
(* is a record [d, s]: the UTC day and the second of that day; its zone is *)
(* the schedule's zone.  A civil time is a second of the day.              *)
(***************************************************************************)
EXTENDS Integers, Sequences, FiniteSets, TLC

\* ------------------------------------------------------------ options

None == [some |-> FALSE]

Some(x) == [some |-> TRUE, val |-> x]

\* Result<Option<Zoned>, ScheduleError> and Result<bool, ScheduleError>
OkSome(z) == [kind |-> "Some", val |-> z]

OkNone == [kind |-> "None"]

Err == [kind |-> "Err"]

OkBool(b) == [kind |-> "Bool", val |-> b]

\* ------------------------------------------------------------ civil dates

SecondsPerDay == 24 * 60 * 60

IsLeap(y) == (y % 4 = 0 /\ y % 100 # 0) \/ y % 400 = 0

DaysInMonth(y, m) ==
  IF m = 2 THEN (IF IsLeap(y) THEN 29 ELSE 28)
  ELSE IF m \in {4, 6, 9, 11} THEN 30 ELSE 31

DaysFromCivil(y, m, d) ==
  LET Count(yy, mp) ==
        365 * yy + yy \div 4 - yy \div 100 + yy \div 400 + (153 * mp + 2) \div 5
          + d - 1 - 719468
  IN Count(IF m <= 2 THEN y - 1 ELSE y, (m + 9) % 12)

\* Date::new(y, m, d): None when the day does not exist in the month
DateNew(y, m, d) ==
  IF m >= 1 /\ m <= 12 /\ d >= 1 /\ d <= DaysInMonth(y, m)
  THEN Some(DaysFromCivil(y, m, d))
  ELSE None

CivilFromDays(z) ==
  LET OfMonth(yb, doy, mp) ==
        [year |-> yb + (IF mp >= 10 THEN 1 ELSE 0),
         month |-> IF mp < 10 THEN mp + 3 ELSE mp - 9,
         day |-> doy - (153 * mp + 2) \div 5 + 1]
      OfDayOfYear(yb, doy) == OfMonth(yb, doy, (5 * doy + 2) \div 153)
      OfYearOfEra(era, doe, yoe) ==
        OfDayOfYear(era * 400 + yoe, doe - (365 * yoe + yoe \div 4 - yoe \div 100))
      OfDayOfEra(era, doe) ==
        OfYearOfEra(era, doe,
                    (doe - doe \div 1460 + doe \div 36524 - doe \div 146096) \div 365)
      OfShifted(zz) == OfDayOfEra(zz \div 146097, zz % 146097)
  IN OfShifted(z + 719468)

YearOf(date) == CivilFromDays(date).year

MonthOf(date) == CivilFromDays(date).month

DayOf(date) == CivilFromDays(date).day

\* Date::weekday as the ISO number, Monday = 1 .. Sunday = 7
WeekdayOf(date) == ((date + 3) % 7) + 1

\* ------------------------------------------------------------ zoned instants

ZLt(a, b) == a.d < b.d \/ (a.d = b.d /\ a.s < b.s)

ZLe(a, b) == a.d < b.d \/ (a.d = b.d /\ a.s <= b.s)

\* Zoned::checked_add of a span of seconds (no overflow inside the model's years)
AddSeconds(z, n) ==
  LET total == z.s + n
  IN [d |-> z.d + total \div SecondsPerDay, s |-> total % SecondsPerDay]

AddMinutes(z, n) == AddSeconds(z, 60 * n)

\* The zones of the model: UTC, and America/New_York with its yearly
\* transitions (second Sunday of March, first Sunday of November).
NewYork == "America/New_York"

UnknownZone == "Mars/Phobos"

NyStandardOffset == -(5 * 3600)

NyDaylightOffset == -(4 * 3600)

NthSunday(y, m, n) ==
  LET From(first) == first + (7 - WeekdayOf(first)) + 7 * (n - 1)
  IN From(DaysFromCivil(y, m, 1))

\* 02:00 EST on the second Sunday of March is 07:00 UTC
NyDstStart(y) == [d |-> NthSunday(y, 3, 2), s |-> 7 * 3600]

\* 02:00 EDT on the first Sunday of November is 06:00 UTC
NyDstEnd(y) == [d |-> NthSunday(y, 11, 1), s |-> 6 * 3600]

Offset(tz, z) ==
  LET In(y) == IF ZLe(NyDstStart(y), z) /\ ZLt(z, NyDstEnd(y))
               THEN NyDaylightOffset
               ELSE NyStandardOffset
  IN IF tz = NewYork THEN In(YearOf(z.d)) ELSE 0

\* Zoned::with_time_zone(tz) followed by datetime(): the wall clock, as a
\* civil date d and a second of the day s
Local(tz, z) == AddSeconds(z, Offset(tz, z))

LocalDate(tz, z) == Local(tz, z).d

\* Time::hour and Time::minute of a second of the day
HourOf(s) == s \div 3600

MinuteOf(s) == (s % 3600) \div 60

\* resolve_tz: the zone of a schedule, or an error for an unknown name
resolve_tz(timezone) ==
  IF ~timezone.some THEN Some("UTC")
  ELSE IF timezone.val \in {"UTC", NewYork} THEN Some(timezone.val)
  ELSE None

\* to_time: the civil time of a TimeOfDay, as a second of the day
to_time(tod) == tod.hour * 3600 + tod.minute * 60

at_time_on_date(date, time, tz) ==
  LET Compatible(early, late) ==
        IF Offset(tz, early) = NyDaylightOffset THEN early ELSE late
  IN IF tz = NewYork
     THEN Compatible(AddSeconds([d |-> date, s |-> time], -NyDaylightOffset),
                     AddSeconds([d |-> date, s |-> time], -NyStandardOffset))
     ELSE [d |-> date, s |-> time]

\* ------------------------------------------------------------ eval helpers

EPOCH_MONDAY == DaysFromCivil(1970, 1, 5)

EPOCH_DATE == DaysFromCivil(1970, 1, 1)

SeqContains(seq, x) == \E i \in 1..Len(seq) : seq[i] = x

matches_day_filter(date, filter) ==
  LET Passes(wd) ==
        CASE filter.kind = "Every" -> TRUE
          [] filter.kind = "Weekday" -> wd \in 1..5
          [] filter.kind = "Weekend" -> wd \in {6, 7}
          [] filter.kind = "Days" -> SeqContains(filter.days, wd)
  IN Passes(WeekdayOf(date))

last_day_of_month(year, month) ==
  IF month = 12
  THEN DaysFromCivil(year + 1, 1, 1) - 1
  ELSE DaysFromCivil(year, month + 1, 1) - 1

RECURSIVE BackToWeekday(_)
BackToWeekday(d) == IF WeekdayOf(d) \notin {6, 7} THEN d ELSE BackToWeekday(d - 1)

last_weekday_of_month(year, month) == BackToWeekday(last_day_of_month(year, month))

RECURSIVE ForwardTo(_, _)
ForwardTo(d, wd) == IF WeekdayOf(d) = wd THEN d ELSE ForwardTo(d + 1, wd)

RECURSIVE BackTo(_, _)
BackTo(d, wd) == IF WeekdayOf(d) = wd THEN d ELSE BackTo(d - 1, wd)

nth_weekday_of_month(year, month, weekday, n) ==
  LET InMonth(d) == IF MonthOf(d) # month THEN None ELSE Some(d)
  IN InMonth(ForwardTo(DaysFromCivil(year, month, 1), weekday) + 7 * (n - 1))

last_weekday_in_month(year, month, weekday) ==
  BackTo(last_day_of_month(year, month), weekday)

\* nearest_weekday without the two month-edge cases of the undirected form
nearest_weekday_across_months(year, month, target_day, direction) ==
  LET Nearest(date, wd, last_day) ==
        IF target_day > last_day THEN None
        ELSE IF wd \in 1..5 THEN Some(date)
        ELSE IF wd = 6
        THEN (IF direction.some /\ direction.val = "Next" THEN Some(date + 2)
              ELSE Some(date - 1))
        ELSE (IF direction.some /\ direction.val = "Previous" THEN Some(date - 2)
              ELSE Some(date + 1))
  IN Nearest(DaysFromCivil(year, month, target_day),
             WeekdayOf(DaysFromCivil(year, month, target_day)),
             DayOf(last_day_of_month(year, month)))

\* direction is None, Some("Next") or Some("Previous")
nearest_weekday(year, month, target_day, direction) ==
  LET Nearest(date, wd, last_day) ==
        IF target_day > last_day THEN None
        ELSE IF wd \in 1..5 THEN Some(date)
        ELSE IF wd = 6
        THEN (IF ~direction.some
              THEN (IF target_day = 1 THEN Some(date + 2) ELSE Some(date - 1))
              ELSE IF direction.val = "Next" THEN Some(date + 2)
              ELSE Some(date - 1))
        ELSE (IF ~direction.some
              THEN (IF target_day >= last_day THEN Some(date - 2) ELSE Some(date + 1))
              ELSE IF direction.val = "Next" THEN Some(date + 1)
              ELSE Some(date - 2))
  IN Nearest(DaysFromCivil(year, month, target_day),
             WeekdayOf(DaysFromCivil(year, month, target_day)),
             DayOf(last_day_of_month(year, month)))

\* Span::get_days() / 7 truncates toward zero
TruncDiv(a, b) == IF a >= 0 THEN a \div b ELSE -((-a) \div b)

\* i64 % keeps the sign of the dividend
TruncRem(a, b) == a - b * TruncDiv(a, b)

weeks_between(a, b) == TruncDiv(b - a, 7)

days_between(a, b) == b - a

months_between_ym(a, b) ==
  LET Index(c) == c.year * 12 + c.month
  IN Index(CivilFromDays(b)) - Index(CivilFromDays(a))

\* a variant that excepts no date
never_excepted(date, exceptions) == FALSE

\* ParsedExceptions::is_excepted and is_excepted: the two agree
is_excepted(date, exceptions) ==
  LET By(c, exc) ==
        IF exc.kind = "Named"
        THEN c.month = exc.month /\ c.day = exc.day
        ELSE date = exc.date
      Among(c) == \E i \in 1..Len(exceptions) : By(c, exceptions[i])
  IN Among(CivilFromDays(date))

matches_during(date, during) ==
  IF Len(during) = 0 THEN TRUE ELSE SeqContains(during, MonthOf(date))

next_during_month(date, during) ==
  LET MinOf(S) == CHOOSE m \in S : \A k \in S : m <= k
      First(c, months, later) ==
        IF later # {}
        THEN DaysFromCivil(c.year, MinOf(later), 1)
        ELSE DaysFromCivil(c.year + 1, MinOf(months), 1)
      After(c, months) == First(c, months, {m \in months : m > c.month})
  IN After(CivilFromDays(date), {during[i] : i \in 1..Len(during)})

\* resolve_until: now_date is now.date().  Some(date), or None for the error
\* of a named day that exists in neither year.
resolve_until(until, now_date) ==
  LET ThisOrNext(this, next) ==
        IF this.some /\ this.val >= now_date THEN this
        ELSE IF next.some /\ next.val >= now_date THEN next
        ELSE next
      NamedIn(year) ==
        ThisOrNext(DateNew(year, until.month, until.day),
                   DateNew(year + 1, until.month, until.day))
  IN IF until.kind = "Iso" THEN Some(until.date) ELSE NamedIn(YearOf(now_date))

\* ------------------------------------------------------------ next_* generators

\* the loop of earliest_future_at_times from the i-th time on
RECURSIVE EarliestFrom(_, _, _, _, _, _)
EarliestFrom(date, times, tz, now, i, best) ==
  LET Better(candidate) ==
        IF ZLt(now, candidate)
        THEN (IF best.some /\ ~ZLt(candidate, best.val) THEN best
              ELSE Some(candidate))
        ELSE best
  IN IF i > Len(times) THEN best
     ELSE EarliestFrom(date, times, tz, now, i + 1,
                       Better(at_time_on_date(date, to_time(times[i]), tz)))

\* a variant that also accepts a candidate equal to now
earliest_at_times_not_before(date, times, tz, now) ==
  EarliestFrom(date, times, tz, AddSeconds(now, -1), 1, None)

\* the earliest candidate of a date that is later than now, if any
earliest_future_at_times(date, times, tz, now) ==
  EarliestFrom(date, times, tz, now, 1, None)

\* the earlier of two optional instants
EarlierOf(a, b) ==
  IF ~a.some THEN b
  ELSE IF ~b.some THEN a
  ELSE IF ZLt(b.val, a.val) THEN b ELSE a

\* a hit if there is one, else what the rest of the search finds
OrElse(hit, rest) == IF hit.some THEN hit ELSE rest

\* the earliest future instant on an optional date
AtDate(date, times, tz, now) ==
  IF date.some THEN earliest_future_at_times(date.val, times, tz, now) ELSE None

\* interval alignment of a day, month or year offset from the anchor
IntervalAligned(offset, interval) ==
  interval <= 1 \/ (offset >= 0 /\ offset % interval = 0)

DayScanLimit == 8

AlignedTries == 2

IntervalScanDays == 400

MonthScanFactor == 24

YearScanFactor == 8

NamedLookaheadYears == 8

RetryBudget == 1000

\* next_day_repeat, interval 1: today, then DayScanLimit more days
RECURSIVE DayScan(_, _, _, _, _, _)
DayScan(date, left, days, times, tz, now) ==
  OrElse(IF matches_day_filter(date, days)
         THEN earliest_future_at_times(date, times, tz, now)
         ELSE None,
         IF left = 0 THEN None
         ELSE DayScan(date + 1, left - 1, days, times, tz, now))

\* the loop over aligned dates, step days apart
RECURSIVE AlignedScan(_, _, _, _, _, _)
AlignedScan(cur, left, step, times, tz, now) ==
  IF left = 0 THEN None
  ELSE OrElse(earliest_future_at_times(cur, times, tz, now),
              AlignedScan(cur + step, left - 1, step, times, tz, now))

next_day_repeat(interval, days, times, tz, anchor, now) ==
  LET AlignUp(date, remainder) ==
        IF remainder = 0 THEN date ELSE date + (interval - remainder)
      From(date, anchor_date) ==
        IF interval <= 1
        THEN DayScan(date, DayScanLimit, days, times, tz, now)
        ELSE AlignedScan(AlignUp(date, days_between(anchor_date, date) % interval),
                         AlignedTries, interval, times, tz, now)
  IN From(LocalDate(tz, now), IF anchor.some THEN anchor.val ELSE EPOCH_DATE)

StepMinutes(interval, unit) ==
  IF unit = "Minutes" THEN interval ELSE interval * 60

RECURSIVE IntervalScan(_, _, _, _, _, _, _, _)
IntervalScan(date, left, step_minutes, from_minutes, to_minutes, day_filter, tz, now) ==
  LET NowMinutes(now_in_tz) ==
        IF date = now_in_tz.d
        THEN HourOf(now_in_tz.s) * 60 + MinuteOf(now_in_tz.s)
        ELSE -1
      NextSlot(now_minutes) ==
        IF now_minutes < from_minutes THEN from_minutes
        ELSE from_minutes
               + ((now_minutes - from_minutes) \div step_minutes + 1) * step_minutes
      Later(candidate) == IF ZLt(now, candidate) THEN Some(candidate) ELSE None
      Slot(next_slot) ==
        IF next_slot <= to_minutes
        THEN Later(at_time_on_date(date, next_slot * 60, tz))
        ELSE None
  IN IF left = 0 THEN None
     ELSE IF left = 1
     THEN (IF day_filter.some /\ ~matches_day_filter(date, day_filter.val)
           THEN None
           ELSE Slot(NextSlot(NowMinutes(Local(tz, now)))))
     ELSE OrElse(IntervalScan(date, left \div 2, step_minutes, from_minutes,
                              to_minutes, day_filter, tz, now),
                 IntervalScan(date + left \div 2, left - left \div 2, step_minutes,
                              from_minutes, to_minutes, day_filter, tz, now))

next_interval_repeat(interval, unit, from, to, day_filter, tz, now) ==
  IntervalScan(LocalDate(tz, now), IntervalScanDays, StepMinutes(interval, unit),
               to_time(from) \div 60, to_time(to) \div 60, day_filter, tz, now)

\* days.sort_by_key(to_monday_one_offset)
RECURSIVE SortDaysFrom(_, _)
SortDaysFrom(days, n) ==
  IF n > 7 THEN <<>>
  ELSE SelectSeq(days, LAMBDA wd : wd = n) \o SortDaysFrom(days, n + 1)

SortDays(days) == SortDaysFrom(days, 1)

\* the target weekdays of one week, in order, from the i-th on
RECURSIVE WeekDaysTry(_, _, _, _, _, _)
WeekDaysTry(cur_monday, sorted_days, i, times, tz, now) ==
  IF i > Len(sorted_days) THEN None
  ELSE OrElse(earliest_future_at_times(cur_monday + (sorted_days[i] - 1), times, tz,
                                       now),
              WeekDaysTry(cur_monday, sorted_days, i + 1, times, tz, now))

RECURSIVE WeekScan(_, _, _, _, _, _, _)
WeekScan(cur_monday, left, interval, sorted_days, times, tz, now) ==
  IF left = 0 THEN None
  ELSE OrElse(WeekDaysTry(cur_monday, sorted_days, 1, times, tz, now),
              WeekScan(cur_monday + interval * 7, left - 1, interval, sorted_days,
                       times, tz, now))

next_week_repeat(interval, days, times, tz, anchor, now) ==
  LET MondayOf(date) == date - (WeekdayOf(date) - 1)
      Aligned(anchor_monday, current_monday, weeks_since_anchor) ==
        IF weeks_since_anchor < 0 THEN anchor_monday
        ELSE IF TruncRem(weeks_since_anchor, interval) = 0 THEN current_monday
        ELSE current_monday
               + (interval - TruncRem(weeks_since_anchor, interval)) * 7
      first_aligned_monday(anchor_monday, current_monday) ==
        Aligned(anchor_monday, current_monday,
                weeks_between(anchor_monday, current_monday))
  IN WeekScan(first_aligned_monday(MondayOf(IF anchor.some THEN anchor.val
                                            ELSE EPOCH_MONDAY),
                                   MondayOf(LocalDate(tz, now))),
              AlignedTries, interval, SortDays(days), times, tz, now)

\* DayOfMonthSpec::expand and MonthTarget::expand_days, as a set of day numbers
expand_days(target) ==
  IF target.kind # "Days" THEN {}
  ELSE UNION {
         IF target.specs[i].kind = "Single"
         THEN {target.specs[i].day}
         ELSE target.specs[i].start .. target.specs[i].end
         : i \in 1..Len(target.specs)}

\* the candidate dates of one month with a day past the end of the month
\* moved to the month's last day
MonthCandidatesClamped(year, month, target) ==
  LET Only(d) == IF d.some THEN {d.val} ELSE {}
      last == last_day_of_month(year, month)
  IN CASE target.kind = "Days" ->
            {IF day_num <= DayOf(last) THEN DaysFromCivil(year, month, day_num) ELSE last :
               day_num \in expand_days(target)}
       [] target.kind = "LastDay" -> {last}
       [] target.kind = "LastWeekday" -> {last_weekday_of_month(year, month)}
       [] target.kind = "NearestWeekday" ->
            Only(nearest_weekday(year, month, target.day, target.direction))

\* the candidate dates of one month for a MonthTarget
MonthCandidates(year, month, target) ==
  LET Only(d) == IF d.some THEN {d.val} ELSE {}
  IN CASE target.kind = "Days" ->
            {DaysFromCivil(year, month, day_num) :
               day_num \in {x \in expand_days(target) :
                              x <= DayOf(last_day_of_month(year, month))}}
       [] target.kind = "LastDay" -> {last_day_of_month(year, month)}
       [] target.kind = "LastWeekday" -> {last_weekday_of_month(year, month)}
       [] target.kind = "NearestWeekday" ->
            Only(nearest_weekday(year, month, target.day, target.direction))

\* the earliest future instant over a set of candidate dates
RECURSIVE BestOfDates(_, _, _, _)
BestOfDates(dates, times, tz, now) ==
  IF dates = {} THEN None
  ELSE LET date == CHOOSE x \in dates : TRUE
       IN EarlierOf(BestOfDates(dates \ {date}, times, tz, now),
                    earliest_future_at_times(date, times, tz, now))

MonthAligned(interval, anchor_date, year, month) ==
  IntervalAligned(months_between_ym(anchor_date, DaysFromCivil(year, month, 1)),
                  interval)

NextYear(year, month) == IF month = 12 THEN year + 1 ELSE year

NextMonth(month) == IF month = 12 THEN 1 ELSE month + 1

RECURSIVE MonthScan(_, _, _, _, _, _, _, _, _, _)
MonthScan(year, month, left, interval, target, times, tz, anchor_date, now, during) ==
  IF left = 0 THEN None
  ELSE OrElse(IF \/ /\ Len(during) > 0
                    /\ target.kind = "NearestWeekday"
                    /\ target.direction.some
                    /\ ~SeqContains(during, month)
                 \/ ~MonthAligned(interval, anchor_date, year, month)
              THEN None
              ELSE BestOfDates(MonthCandidates(year, month, target), times, tz, now),
              MonthScan(NextYear(year, month), NextMonth(month), left - 1, interval,
                        target, times, tz, anchor_date, now, during))

MonthMaxIter(interval) ==
  IF interval > 1 THEN MonthScanFactor * interval ELSE MonthScanFactor

next_month_repeat(interval, target, times, tz, anchor, now, during) ==
  LET From(c) ==
        MonthScan(c.year, c.month, MonthMaxIter(interval), interval, target, times,
                  tz, IF anchor.some THEN anchor.val ELSE EPOCH_DATE, now, during)
  IN From(CivilFromDays(LocalDate(tz, now)))

ordinal_to_n(ord) ==
  CASE ord = "First" -> 1
    [] ord = "Second" -> 2
    [] ord = "Third" -> 3
    [] ord = "Fourth" -> 4
    [] ord = "Fifth" -> 5

\* the date of an ordinal weekday in a month, if it exists
OrdinalDate(year, month, ordinal, day) ==
  IF ordinal = "Last"
  THEN Some(last_weekday_in_month(year, month, day))
  ELSE nth_weekday_of_month(year, month, day, ordinal_to_n(ordinal))

RECURSIVE OrdinalScan(_, _, _, _, _, _, _, _, _, _)
OrdinalScan(year, month, left, interval, ordinal, day, times, tz, anchor_date, now) ==
  IF left = 0 THEN None
  ELSE OrElse(IF MonthAligned(interval, anchor_date, year, month)
              THEN AtDate(OrdinalDate(year, month, ordinal, day), times, tz, now)
              ELSE None,
              OrdinalScan(NextYear(year, month), NextMonth(month), left - 1, interval,
                          ordinal, day, times, tz, anchor_date, now))

next_ordinal_repeat(interval, ordinal, day, times, tz, anchor, now) ==
  LET From(c) ==
        OrdinalScan(c.year, c.month, MonthMaxIter(interval), interval, ordinal, day,
                    times, tz, IF anchor.some THEN anchor.val ELSE EPOCH_DATE, now)
  IN From(CivilFromDays(LocalDate(tz, now)))

RECURSIVE NamedScan(_, _, _, _, _, _, _)
NamedScan(year, left, month, day, times, tz, now) ==
  IF left = 0 THEN None
  ELSE OrElse(AtDate(DateNew(year, month, day), times, tz, now),
              NamedScan(year + 1, left - 1, month, day, times, tz, now))

next_single_date(date_spec, times, tz, now) ==
  IF date_spec.kind = "Iso"
  THEN earliest_future_at_times(date_spec.date, times, tz, now)
  ELSE NamedScan(YearOf(LocalDate(tz, now)), NamedLookaheadYears,
                 date_spec.month, date_spec.day, times, tz, now)

\* the date of a YearTarget in a year, if it exists
YearTargetDate(year, target) ==
  CASE target.kind = "Date" -> DateNew(year, target.month, target.day)
    [] target.kind = "OrdinalWeekday" ->
         OrdinalDate(year, target.month, target.ordinal, target.weekday)
    [] target.kind = "DayOfMonth" -> DateNew(year, target.month, target.day)
    [] target.kind = "LastWeekday" -> Some(last_weekday_of_month(year, target.month))

RECURSIVE YearScan(_, _, _, _, _, _, _, _)
YearScan(year, left, interval, anchor_year, target, times, tz, now) ==
  IF left = 0 THEN None
  ELSE OrElse(IF IntervalAligned(year - anchor_year, interval)
              THEN AtDate(YearTargetDate(year, target), times, tz, now)
              ELSE None,
              YearScan(year + 1, left - 1, interval, anchor_year, target, times, tz,
                       now))

next_year_repeat(interval, target, times, tz, anchor, now) ==
  YearScan(YearOf(LocalDate(tz, now)),
           IF interval > 1 THEN YearScanFactor * interval ELSE YearScanFactor,
           interval, YearOf(IF anchor.some THEN anchor.val ELSE EPOCH_DATE), target,
           times, tz, now)

next_expr(expr, tz, anchor, now, during) ==
  CASE expr.kind = "DayRepeat" ->
         next_day_repeat(expr.interval, expr.days, expr.times, tz, anchor, now)
    [] expr.kind = "IntervalRepeat" ->
         next_interval_repeat(expr.interval, expr.unit, expr.from, expr.to,
                              expr.day_filter, tz, now)
    [] expr.kind = "WeekRepeat" ->
         next_week_repeat(expr.interval, expr.days, expr.times, tz, anchor, now)
    [] expr.kind = "MonthRepeat" ->
         next_month_repeat(expr.interval, expr.target, expr.times, tz, anchor, now,
                           during)
    [] expr.kind = "OrdinalRepeat" ->
         next_ordinal_repeat(expr.interval, expr.ordinal, expr.day, expr.times, tz,
                             anchor, now)
    [] expr.kind = "SingleDate" -> next_single_date(expr.date, expr.times, tz, now)
    [] expr.kind = "YearRepeat" ->
         next_year_repeat(expr.interval, expr.target, expr.times, tz, anchor, now)

\* ------------------------------------------------------------ next_from

\* MonthRepeat with a directional NearestWeekday target
handles_during_internally(expr) ==
  /\ expr.kind = "MonthRepeat"
  /\ expr.target.kind = "NearestWeekday"
  /\ expr.target.direction.some

\* one second before midnight at the start of a date
JustBefore(date, tz) == AddSeconds(at_time_on_date(date, 0, tz), -1)

\* The state of the retry loop of next_from: the cursor while it runs, the
\* value returned once it has returned.
Running(current) == [done |-> FALSE, current |-> current]

Returned(r) == [done |-> TRUE, result |-> r]

\* one iteration of the retry loop
RetryStep(schedule, tz, until_date, st) ==
  LET Filter(candidate, c_date) ==
        IF until_date.some /\ c_date > until_date.val THEN Returned(OkNone)
        ELSE IF /\ Len(schedule.during) > 0
                /\ ~handles_during_internally(schedule.expr)
                /\ ~matches_during(c_date, schedule.during)
        THEN Running(JustBefore(next_during_month(c_date, schedule.during), tz))
        ELSE IF Len(schedule.except) > 0 /\ is_excepted(c_date, schedule.except)
        THEN Running(JustBefore(c_date + 1, tz))
        ELSE Returned(OkSome(candidate))
      Try(candidate) ==
        IF ~candidate.some THEN Returned(OkNone)
        ELSE Filter(candidate.val, LocalDate(tz, candidate.val))
  IN Try(next_expr(schedule.expr, tz, schedule.anchor, st.current, schedule.during))

\* n iterations of the retry loop, stopping at the first that returns
RECURSIVE RetryLoop(_, _, _, _, _)
RetryLoop(schedule, tz, until_date, st, n) ==
  IF st.done \/ n = 0 THEN st
  ELSE IF n = 1 THEN RetryStep(schedule, tz, until_date, st)
  ELSE RetryLoop(schedule, tz, until_date,
                 RetryLoop(schedule, tz, until_date, st, n \div 2),
                 n - n \div 2)

\* the iterations of the retry loop in runs of 1, 2, 4, ... iterations, so
\* that a loop that returns early is evaluated in few nested steps
RECURSIVE RetryRuns(_, _, _, _, _, _)
RetryRuns(schedule, tz, until_date, st, n, run) ==
  LET Min(x, y) == IF x < y THEN x ELSE y
      After(ran) == RetryRuns(schedule, tz, until_date, ran, n - Min(run, n), 2 * run)
  IN IF st.done \/ n = 0 THEN st
     ELSE After(RetryLoop(schedule, tz, until_date, st, Min(run, n)))

\* next_from with an error in place of `Ok(None)` after the last iteration
next_from_or_exhausted(schedule, now) ==
  LET Loop(st) == IF st.done THEN st.result ELSE Err
      Until(tz, until_date) ==
        IF schedule.until.some /\ ~until_date.some THEN Err
        ELSE Loop(RetryRuns(schedule, tz, until_date, Running(now), RetryBudget, 1))
      In(tz) ==
        IF ~tz.some THEN Err
        ELSE Until(tz.val,
                   IF schedule.until.some
                   THEN resolve_until(schedule.until.val, LocalDate(tz.val, now))
                   ELSE None)
  IN In(resolve_tz(schedule.timezone))

next_from(schedule, now) ==
  LET Loop(st) == IF st.done THEN st.result ELSE OkNone
      Until(tz, until_date) ==
        IF schedule.until.some /\ ~until_date.some THEN Err
        ELSE Loop(RetryRuns(schedule, tz, until_date, Running(now), RetryBudget, 1))
      In(tz) ==
        IF ~tz.some THEN Err
        ELSE Until(tz.val,
                   IF schedule.until.some
                   THEN resolve_until(schedule.until.val, LocalDate(tz.val, now))
                   ELSE None)
  IN In(resolve_tz(schedule.timezone))

\* ------------------------------------------------------------ prev_* generators

\* times.sort_by_key(|t| (t.hour, t.minute)) and reverse: latest first
LatestFirst(times) == SortSeq(times, LAMBDA a, b : to_time(a) > to_time(b))

\* the loop of latest_past_at_times from the i-th time on
RECURSIVE LatestPastFrom(_, _, _, _, _)
LatestPastFrom(date, sorted_times, tz, now, i) ==
  LET Try(candidate) ==
        IF ZLt(candidate, now) THEN Some(candidate)
        ELSE LatestPastFrom(date, sorted_times, tz, now, i + 1)
  IN IF i > Len(sorted_times) THEN None
     ELSE Try(at_time_on_date(date, to_time(sorted_times[i]), tz))

\* the latest candidate of a date that is earlier than now, if any
latest_past_at_times(date, times, tz, now) ==
  LatestPastFrom(date, LatestFirst(times), tz, now, 1)

\* the candidate of the latest time of a date, whatever now is
latest_at_times(date, times, tz) ==
  IF times = <<>> THEN None
  ELSE Some(at_time_on_date(date, to_time(LatestFirst(times)[1]), tz))

\* a candidate that is earlier than now
Before(candidate, now) ==
  IF candidate.some /\ ZLt(candidate.val, now) THEN candidate ELSE None

\* the latest past instant on an optional date that is not after start_date
OnOrBefore(date, start_date, times, tz, now) ==
  IF ~date.some \/ date.val > start_date THEN None
  ELSE IF date.val = start_date THEN latest_past_at_times(date.val, times, tz, now)
  ELSE latest_at_times(date.val, times, tz)

\* prev_day_repeat, interval 1: the days before date, DayScanLimit of them
RECURSIVE PrevDayScan(_, _, _, _, _)
PrevDayScan(date, left, days, times, tz) ==
  IF left = 0 THEN None
  ELSE OrElse(IF matches_day_filter(date - 1, days)
              THEN latest_at_times(date - 1, times, tz)
              ELSE None,
              PrevDayScan(date - 1, left - 1, days, times, tz))

\* the loop over aligned dates, step days apart, going back
RECURSIVE PrevAlignedScan(_, _, _, _, _, _)
PrevAlignedScan(cur, left, step, times, tz, now) ==
  IF left = 0 THEN None
  ELSE OrElse(latest_past_at_times(cur, times, tz, now),
       OrElse(Before(latest_at_times(cur, times, tz), now),
       OrElse(latest_at_times(cur - step, times, tz),
              PrevAlignedScan(cur - step, left - 1, step, times, tz, now))))

prev_day_repeat(interval, days, times, tz, anchor, now) ==
  LET Today(date) ==
        IF matches_day_filter(date, days)
        THEN latest_past_at_times(date, times, tz, now)
        ELSE None
      From(date, anchor_date) ==
        IF interval <= 1
        THEN OrElse(Today(date), PrevDayScan(date, DayScanLimit, days, times, tz))
        ELSE PrevAlignedScan(date - (days_between(anchor_date, date) % interval),
                             AlignedTries, interval, times, tz, now)
  IN From(LocalDate(tz, now), IF anchor.some THEN anchor.val ELSE EPOCH_DATE)

RECURSIVE PrevIntervalScan(_, _, _, _, _, _, _, _)
PrevIntervalScan(date, left, step_minutes, from_minutes, to_minutes, day_filter, tz, now) ==
  LET Slot(minutes) == Some(at_time_on_date(date, minutes * 60, tz))
      Pick(same_day, now_minutes, last_slot_minutes) ==
        IF same_day /\ last_slot_minutes >= now_minutes
        THEN (IF last_slot_minutes - step_minutes >= from_minutes
              THEN Slot(last_slot_minutes - step_minutes)
              ELSE None)
        ELSE Slot(last_slot_minutes)
      Search(same_day, now_minutes, search_until) ==
        IF search_until >= from_minutes
        THEN Pick(same_day, now_minutes,
                  from_minutes
                    + ((search_until - from_minutes) \div step_minutes) * step_minutes)
        ELSE None
      On(same_day, now_minutes) ==
        Search(same_day, now_minutes,
               IF same_day /\ now_minutes < to_minutes THEN now_minutes ELSE to_minutes)
      Day(now_in_tz) ==
        On(date = now_in_tz.d, HourOf(now_in_tz.s) * 60 + MinuteOf(now_in_tz.s))
  IN IF left = 0 THEN None
     ELSE OrElse(IF day_filter.some /\ ~matches_day_filter(date, day_filter.val)
                 THEN None
                 ELSE Day(Local(tz, now)),
                 PrevIntervalScan(date - 1, left - 1, step_minutes, from_minutes,
                                  to_minutes, day_filter, tz, now))

prev_interval_repeat(interval, unit, from, to, day_filter, tz, now) ==
  PrevIntervalScan(LocalDate(tz, now), DayScanLimit, StepMinutes(interval, unit),
                   to_time(from) \div 60, to_time(to) \div 60, day_filter, tz, now)

\* sorted_days.reverse()
Reversed(seq) == [i \in 1..Len(seq) |-> seq[Len(seq) + 1 - i]]

\* the target weekdays of the current week, latest first, from the i-th on
RECURSIVE ThisWeekTry(_, _, _, _, _, _, _)
ThisWeekTry(current_monday, date, sorted_days, i, times, tz, now) ==
  IF i > Len(sorted_days) THEN None
  ELSE OrElse(OnOrBefore(Some(current_monday + (sorted_days[i] - 1)), date, times, tz,
                         now),
              ThisWeekTry(current_monday, date, sorted_days, i + 1, times, tz, now))

\* the target weekdays of an earlier week, latest first, from the i-th on
RECURSIVE EarlierWeekTry(_, _, _, _, _, _)
EarlierWeekTry(check_monday, sorted_days, i, times, tz, now) ==
  IF i > Len(sorted_days) THEN None
  ELSE OrElse(Before(latest_at_times(check_monday + (sorted_days[i] - 1), times, tz),
                     now),
              EarlierWeekTry(check_monday, sorted_days, i + 1, times, tz, now))

PrevWeekLimit == 54

\* the loop over earlier weeks: count of them, interval weeks apart, the
\* first of them first steps before check_monday; a week before the anchor
\* ends the loop, and so does every week before it
RECURSIVE PrevWeekScan(_, _, _, _, _, _, _, _, _)
PrevWeekScan(check_monday, first, count, interval, anchor_monday, sorted_days, times, tz, now) ==
  LET In(monday) ==
        IF weeks_between(anchor_monday, monday) < 0 THEN None
        ELSE EarlierWeekTry(monday, sorted_days, 1, times, tz, now)
  IN IF count = 0 THEN None
     ELSE IF count = 1 THEN In(check_monday - first * interval * 7)
     ELSE OrElse(PrevWeekScan(check_monday, first, count \div 2, interval,
                              anchor_monday, sorted_days, times, tz, now),
                 PrevWeekScan(check_monday, first + count \div 2, count - count \div 2,
                              interval, anchor_monday, sorted_days, times, tz, now))

prev_week_repeat(interval, days, times, tz, anchor, now) ==
  LET MondayOf(date) == date - (WeekdayOf(date) - 1)
      Weeks(date, anchor_monday, current_monday, weeks, aligned) ==
        OrElse(IF aligned
               THEN ThisWeekTry(current_monday, date, Reversed(SortDays(days)), 1, times,
                                tz, now)
               ELSE None,
               PrevWeekScan(IF aligned THEN current_monday - interval * 7
                            ELSE current_monday - (weeks % interval) * 7,
                            0, PrevWeekLimit, interval, anchor_monday,
                            Reversed(SortDays(days)), times, tz, now))
      Since(date, anchor_monday, current_monday, weeks) ==
        Weeks(date, anchor_monday, current_monday, weeks,
              weeks >= 0 /\ TruncRem(weeks, interval) = 0)
      From(date, anchor_monday, current_monday) ==
        Since(date, anchor_monday, current_monday,
              weeks_between(anchor_monday, current_monday))
  IN From(LocalDate(tz, now), MondayOf(IF anchor.some THEN anchor.val ELSE EPOCH_MONDAY),
          MondayOf(LocalDate(tz, now)))

\* the latest past instant over the target dates of a month, latest first
RECURSIVE LatestOfDates(_, _, _, _, _)
LatestOfDates(dates, start_date, times, tz, now) ==
  LET At(date) ==
        OrElse(OnOrBefore(Some(date), start_date, times, tz, now),
               LatestOfDates(dates \ {date}, start_date, times, tz, now))
  IN IF dates = {} THEN None
     ELSE At(CHOOSE x \in dates : \A y \in dates : y <= x)

\* the month k months before a month of a year
MonthBack(year, month, k) ==
  LET Of(index) == [year |-> index \div 12, month |-> (index % 12) + 1]
  IN Of(year * 12 + (month - 1) - k)

\* the loop of prev_month_repeat: count months going back, the first of them
\* first months before the month of now; the first hit is returned
RECURSIVE PrevMonthScan(_, _, _, _, _, _, _, _, _, _, _)
PrevMonthScan(year, month, first, count, interval, target, times, tz, anchor_date, start_date, now) ==
  LET In(c) ==
        IF MonthAligned(interval, anchor_date, c.year, c.month)
        THEN LatestOfDates(MonthCandidates(c.year, c.month, target), start_date, times,
                           tz, now)
        ELSE None
  IN IF count = 0 THEN None
     ELSE IF count = 1 THEN In(MonthBack(year, month, first))
     ELSE OrElse(PrevMonthScan(year, month, first, count \div 2, interval, target,
                               times, tz, anchor_date, start_date, now),
                 PrevMonthScan(year, month, first + count \div 2, count - count \div 2,
                               interval, target, times, tz, anchor_date, start_date,
                               now))

prev_month_repeat(interval, target, times, tz, anchor, now) ==
  LET From(c) ==
        PrevMonthScan(c.year, c.month, 0, MonthMaxIter(interval), interval, target,
                      times, tz, IF anchor.some THEN anchor.val ELSE EPOCH_DATE,
                      LocalDate(tz, now), now)
  IN From(CivilFromDays(LocalDate(tz, now)))

\* the loop of prev_ordinal_repeat, month by month going back
RECURSIVE PrevOrdinalScan(_, _, _, _, _, _, _, _, _, _, _, _)
PrevOrdinalScan(year, month, first, count, interval, ordinal, day, times, tz, anchor_date, start_date, now) ==
  LET In(c) ==
        IF MonthAligned(interval, anchor_date, c.year, c.month)
        THEN OnOrBefore(OrdinalDate(c.year, c.month, ordinal, day), start_date, times,
                        tz, now)
        ELSE None
  IN IF count = 0 THEN None
     ELSE IF count = 1 THEN In(MonthBack(year, month, first))
     ELSE OrElse(PrevOrdinalScan(year, month, first, count \div 2, interval, ordinal,
                                 day, times, tz, anchor_date, start_date, now),
                 PrevOrdinalScan(year, month, first + count \div 2,
                                 count - count \div 2, interval, ordinal, day, times,
                                 tz, anchor_date, start_date, now))

prev_ordinal_repeat(interval, ordinal, day, times, tz, anchor, now) ==
  LET From(c) ==
        PrevOrdinalScan(c.year, c.month, 0, MonthMaxIter(interval), interval, ordinal,
                        day, times, tz, IF anchor.some THEN anchor.val ELSE EPOCH_DATE,
                        LocalDate(tz, now), now)
  IN From(CivilFromDays(LocalDate(tz, now)))

prev_single_date(date_spec, times, tz, now) ==
  LET Or(a, b) == IF a.some THEN a.val ELSE b
      Named_(now_date, d, last_year) ==
        IF d < now_date THEN latest_at_times(d, times, tz)
        ELSE IF d = now_date
        THEN OrElse(latest_past_at_times(d, times, tz, now),
                    latest_at_times(Or(last_year, d), times, tz))
        ELSE latest_at_times(Or(last_year, d), times, tz)
      Yearly(now_date, this_year, last_year) ==
        IF this_year.some THEN Named_(now_date, this_year.val, last_year) ELSE None
      In(now_date, year) ==
        Yearly(now_date, DateNew(year, date_spec.month, date_spec.day),
               DateNew(year - 1, date_spec.month, date_spec.day))
  IN IF date_spec.kind = "Iso"
     THEN OnOrBefore(Some(date_spec.date), LocalDate(tz, now), times, tz, now)
     ELSE In(LocalDate(tz, now), YearOf(LocalDate(tz, now)))

RECURSIVE PrevYearScan(_, _, _, _, _, _, _, _, _)
PrevYearScan(year, left, interval, anchor_year, target, times, tz, start_date, now) ==
  IF left = 0 THEN None
  ELSE OrElse(IF IntervalAligned(year - anchor_year, interval)
              THEN OnOrBefore(YearTargetDate(year, target), start_date, times, tz, now)
              ELSE None,
              PrevYearScan(year - 1, left - 1, interval, anchor_year, target, times, tz,
                           start_date, now))

prev_year_repeat(interval, target, times, tz, anchor, now) ==
  PrevYearScan(YearOf(LocalDate(tz, now)),
               IF interval > 1 THEN YearScanFactor * interval ELSE YearScanFactor,
               interval, YearOf(IF anchor.some THEN anchor.val ELSE EPOCH_DATE), target,
               times, tz, LocalDate(tz, now), now)

prev_expr(expr, tz, anchor, now) ==
  CASE expr.kind = "DayRepeat" ->
         prev_day_repeat(expr.interval, expr.days, expr.times, tz, anchor, now)
    [] expr.kind = "IntervalRepeat" ->
         prev_interval_repeat(expr.interval, expr.unit, expr.from, expr.to,
                              expr.day_filter, tz, now)
    [] expr.kind = "WeekRepeat" ->
         prev_week_repeat(expr.interval, expr.days, expr.times, tz, anchor, now)
    [] expr.kind = "MonthRepeat" ->
         prev_month_repeat(expr.interval, expr.target, expr.times, tz, anchor, now)
    [] expr.kind = "OrdinalRepeat" ->
         prev_ordinal_repeat(expr.interval, expr.ordinal, expr.day, expr.times, tz,
                             anchor, now)
    [] expr.kind = "SingleDate" -> prev_single_date(expr.date, expr.times, tz, now)
    [] expr.kind = "YearRepeat" ->
         prev_year_repeat(expr.interval, expr.target, expr.times, tz, anchor, now)

\* ------------------------------------------------------------ previous_from

\* prev_during_month: the last day of the latest month of the list before
\* the month of date
prev_during_month(date, during) ==
  LET MaxOf(S) == CHOOSE m \in S : \A k \in S : k <= m
      Last(c, months, earlier) ==
        IF earlier # {} THEN last_day_of_month(c.year, MaxOf(earlier))
        ELSE IF months # {} THEN last_day_of_month(c.year - 1, MaxOf(months))
        ELSE date - 1
      BeforeMonth(c, months) == Last(c, months, {m \in months : m < c.month})
  IN BeforeMonth(CivilFromDays(date), {during[i] : i \in 1..Len(during)})

\* midnight at the start of the day after date: 23:59:59 plus one second
JustAfter(date, tz) == AddSeconds(at_time_on_date(date, SecondsPerDay - 1, tz), 1)

\* one iteration of the retry loop of previous_from
PrevRetryStep(schedule, tz, until_date, st) ==
  LET Filter(candidate, c_date) ==
        IF schedule.anchor.some /\ c_date < schedule.anchor.val THEN Returned(OkNone)
        ELSE IF until_date.some /\ c_date > until_date.val
        THEN Running(at_time_on_date(until_date.val, SecondsPerDay - 1, tz))
        ELSE IF /\ Len(schedule.during) > 0
                /\ ~handles_during_internally(schedule.expr)
                /\ ~matches_during(c_date, schedule.during)
        THEN Running(JustAfter(prev_during_month(c_date, schedule.during), tz))
        ELSE IF Len(schedule.except) > 0 /\ is_excepted(c_date, schedule.except)
        THEN Running(JustAfter(c_date - 1, tz))
        ELSE Returned(OkSome(candidate))
      Try(candidate) ==
        IF ~candidate.some THEN Returned(OkNone)
        ELSE Filter(candidate.val, LocalDate(tz, candidate.val))
  IN Try(prev_expr(schedule.expr, tz, schedule.anchor, st.current))

\* n iterations of the retry loop, stopping at the first that returns
RECURSIVE PrevRetryLoop(_, _, _, _, _)
PrevRetryLoop(schedule, tz, until_date, st, n) ==
  IF st.done \/ n = 0 THEN st
  ELSE IF n = 1 THEN PrevRetryStep(schedule, tz, until_date, st)
  ELSE PrevRetryLoop(schedule, tz, until_date,
                     PrevRetryLoop(schedule, tz, until_date, st, n \div 2),
                     n - n \div 2)

\* the iterations of the retry loop in runs of 1, 2, 4, ... iterations, so
\* that a loop that returns early is evaluated in few nested steps
RECURSIVE PrevRetryRuns(_, _, _, _, _, _)
PrevRetryRuns(schedule, tz, until_date, st, n, run) ==
  LET Min(x, y) == IF x < y THEN x ELSE y
      After(ran) == PrevRetryRuns(schedule, tz, until_date, ran, n - Min(run, n), 2 * run)
  IN IF st.done \/ n = 0 THEN st
     ELSE After(PrevRetryLoop(schedule, tz, until_date, st, Min(run, n)))

previous_from(schedule, now) ==
  LET Loop(st) == IF st.done THEN st.result ELSE OkNone
      Until(tz, until_date) ==
        IF schedule.until.some /\ ~until_date.some THEN Err
        ELSE Loop(PrevRetryRuns(schedule, tz, until_date, Running(now), RetryBudget, 1))
      In(tz) ==
        IF ~tz.some THEN Err
        ELSE Until(tz.val,
                   IF schedule.until.some
                   THEN resolve_until(schedule.until.val, LocalDate(tz.val, now))
                   ELSE None)
  IN In(resolve_tz(schedule.timezone))

\* ------------------------------------------------------------ matches

time_matches_with_dst(date, times, tz, zdt) ==
  LET Matching(wall, t) ==
        \/ HourOf(wall.s) = HourOf(t) /\ MinuteOf(wall.s) = MinuteOf(t)
        \/ at_time_on_date(date, t, tz) = zdt
  IN \E i \in 1..Len(times) : Matching(Local(tz, zdt), to_time(times[i]))

\* interval alignment of matches: an offset that is non-negative and a
\* multiple of the interval (i64 %)
AlignedOffset(offset, interval) == offset >= 0 /\ TruncRem(offset, interval) = 0

\* the variant's own shape, time list and interval alignment
MatchesExpr(expr, anchor, tz, zdt, date) ==
  LET TimeMatches == time_matches_with_dst(date, expr.times, tz, zdt)
      IntervalAt(current_minutes, from_minutes, to_minutes) ==
        /\ current_minutes >= from_minutes
        /\ current_minutes <= to_minutes
        /\ current_minutes - from_minutes >= 0
        /\ (current_minutes - from_minutes) % StepMinutes(expr.interval, expr.unit)
             = 0
      WallMinutes(wall) == HourOf(wall.s) * 60 + MinuteOf(wall.s)
      MonthTarget(target, year, month) ==
        CASE target.kind = "Days" -> DayOf(date) \in expand_days(target)
          [] target.kind = "LastDay" -> date = last_day_of_month(year, month)
          [] target.kind = "LastWeekday" -> date = last_weekday_of_month(year, month)
          [] target.kind = "NearestWeekday" ->
               nearest_weekday(year, month, target.day, target.direction)
                 = Some(date)
      YearTarget(target, year, month) ==
        CASE target.kind \in {"Date", "DayOfMonth"} ->
               month = target.month /\ DayOf(date) = target.day
          [] target.kind = "OrdinalWeekday" ->
               /\ month = target.month
               /\ OrdinalDate(year, month, target.ordinal, target.weekday)
                    = Some(date)
          [] target.kind = "LastWeekday" ->
               /\ month = target.month
               /\ date = last_weekday_of_month(year, month)
  IN CASE expr.kind = "DayRepeat" ->
            /\ matches_day_filter(date, expr.days)
            /\ TimeMatches
            /\ expr.interval > 1 =>
                 AlignedOffset(days_between(IF anchor.some THEN anchor.val
                                            ELSE EPOCH_DATE, date),
                               expr.interval)
       [] expr.kind = "IntervalRepeat" ->
            /\ expr.day_filter.some => matches_day_filter(date, expr.day_filter.val)
            /\ IntervalAt(WallMinutes(Local(tz, zdt)), to_time(expr.from) \div 60,
                          to_time(expr.to) \div 60)
       [] expr.kind = "WeekRepeat" ->
            /\ SeqContains(expr.days, WeekdayOf(date))
            /\ TimeMatches
            /\ AlignedOffset(weeks_between(IF anchor.some THEN anchor.val
                                           ELSE EPOCH_MONDAY, date),
                             expr.interval)
       [] expr.kind = "MonthRepeat" ->
            /\ TimeMatches
            /\ expr.interval > 1 =>
                 AlignedOffset(months_between_ym(IF anchor.some THEN anchor.val
                                                 ELSE EPOCH_DATE, date),
                               expr.interval)
            /\ MonthTarget(expr.target, YearOf(date), MonthOf(date))
       [] expr.kind = "OrdinalRepeat" ->
            /\ TimeMatches
            /\ expr.interval > 1 =>
                 AlignedOffset(months_between_ym(IF anchor.some THEN anchor.val
                                                 ELSE EPOCH_DATE, date),
                               expr.interval)
            /\ OrdinalDate(YearOf(date), MonthOf(date), expr.ordinal, expr.day)
                 = Some(date)
       [] expr.kind = "SingleDate" ->
            /\ TimeMatches
            /\ IF expr.date.kind = "Iso"
               THEN date = expr.date.date
               ELSE MonthOf(date) = expr.date.month /\ DayOf(date) = expr.date.day
       [] expr.kind = "YearRepeat" ->
            /\ TimeMatches
            /\ expr.interval > 1 =>
                 AlignedOffset(YearOf(date) - YearOf(IF anchor.some THEN anchor.val
                                                     ELSE EPOCH_DATE),
                               expr.interval)
            /\ YearTarget(expr.target, YearOf(date), MonthOf(date))

matches(schedule, datetime) ==
  LET Until(bounded, until_date, date, verdict) ==
        IF bounded /\ ~until_date.some THEN Err
        ELSE IF bounded /\ date > until_date.val THEN OkBool(FALSE)
        ELSE verdict
      On(tz, date) ==
        IF ~matches_during(date, schedule.during) THEN OkBool(FALSE)
        ELSE IF is_excepted(date, schedule.except) THEN OkBool(FALSE)
        ELSE Until(schedule.until.some,
                   IF schedule.until.some
                   THEN resolve_until(schedule.until.val, date)
                   ELSE None,
                   date,
                   OkBool(MatchesExpr(schedule.expr, schedule.anchor, tz, datetime,
                                      date)))
      In(tz) == IF ~tz.some THEN Err ELSE On(tz.val, LocalDate(tz.val, datetime))
  IN In(resolve_tz(schedule.timezone))

\* ------------------------------------------------------------ iterators

\* the item of one pull and the cursor after it: past the emitted instant by
\* `minutes`, unmoved on an error or at the end
Yielded(r, cursor, minutes) ==
  IF r.kind = "Some"
  THEN [item |-> r, cursor |-> AddMinutes(r.val, minutes)]
  ELSE [item |-> r, cursor |-> cursor]

\* a variant that leaves the cursor on the minute before the emitted instant
OccurrencesNextStalled(schedule, cursor) ==
  Yielded(next_from(schedule, cursor), cursor, -1)

\* Occurrences::next on a cursor: the item yielded ("Some" instant, "Err", or
\* "None" for the end of the sequence) and the cursor afterwards
OccurrencesNext(schedule, cursor) ==
  Yielded(next_from(schedule, cursor), cursor, 1)

\* BoundedOccurrences::next: the inner pull, cut at the end bound
BoundedOccurrencesNext(schedule, cursor, bound) ==
  LET Cut(inner) ==
        IF inner.item.kind = "Some" /\ ~ZLe(inner.item.val, bound)
        THEN [item |-> OkNone, cursor |-> inner.cursor]
        ELSE inner
  IN Cut(OccurrencesNext(schedule, cursor))

\* Occurrences::take(n).collect(): the items up to the first end or error; an
\* error replaces the whole vector
RECURSIVE TakeCollect(_, _, _, _)
TakeCollect(schedule, cursor, n, acc) ==
  LET Collect(r) ==
        IF r.item.kind = "Some"
        THEN TakeCollect(schedule, r.cursor, n - 1, Append(acc, r.item))
        ELSE IF r.item.kind = "Err" THEN [items |-> <<Err>>, cursor |-> r.cursor]
        ELSE [items |-> acc, cursor |-> r.cursor]
  IN IF n = 0 THEN [items |-> acc, cursor |-> cursor]
     ELSE Collect(OccurrencesNext(schedule, cursor))

next_n_from(schedule, now, n) == TakeCollect(schedule, now, n, <<>>)

\* ------------------------------------------------------------ the AST

TimeOfDay(hour, minute) == [hour |-> hour, minute |-> minute]

\* Schedule::new: an expression with no modifiers
ScheduleNew(expr) ==
  [expr |-> expr, timezone |-> None, except |-> <<>>, until |-> None,
   anchor |-> None, during |-> <<>>]

DayRepeat(interval, days, times) ==
  [kind |-> "DayRepeat", interval |-> interval, days |-> days, times |-> times]

IntervalRepeat(interval, unit, from, to, day_filter) ==
  [kind |-> "IntervalRepeat", interval |-> interval, unit |-> unit, from |-> from,
   to |-> to, day_filter |-> day_filter]

WeekRepeat(interval, days, times) ==
  [kind |-> "WeekRepeat", interval |-> interval, days |-> days, times |-> times]

MonthRepeat(interval, target, times) ==
  [kind |-> "MonthRepeat", interval |-> interval, target |-> target, times |-> times]

OrdinalRepeat(interval, ordinal, day, times) ==
  [kind |-> "OrdinalRepeat", interval |-> interval, ordinal |-> ordinal, day |-> day,
   times |-> times]

SingleDate(date, times) == [kind |-> "SingleDate", date |-> date, times |-> times]

YearRepeat(interval, target, times) ==
  [kind |-> "YearRepeat", interval |-> interval, target |-> target, times |-> times]

Every == [kind |-> "Every"]

WeekdayFilter == [kind |-> "Weekday"]

WeekendFilter == [kind |-> "Weekend"]

Days(days) == [kind |-> "Days", days |-> days]

\* Exception, UntilSpec and DateSpec share the two shapes Iso and Named
Iso(date) == [kind |-> "Iso", date |-> date]

Named(month, day) == [kind |-> "Named", month |-> month, day |-> day]

DaysTarget(specs) == [kind |-> "Days", specs |-> specs]

Single(day) == [kind |-> "Single", day |-> day]

Range(start, end) == [kind |-> "Range", start |-> start, end |-> end]

LastDay == [kind |-> "LastDay"]

LastWeekday == [kind |-> "LastWeekday"]

NearestWeekday(day, direction) ==
  [kind |-> "NearestWeekday", day |-> day, direction |-> direction]

YearDate(month, day) == [kind |-> "Date", month |-> month, day |-> day]

YearOrdinalWeekday(ordinal, weekday, month) ==
  [kind |-> "OrdinalWeekday", ordinal |-> ordinal, weekday |-> weekday,
   month |-> month]

YearDayOfMonth(day, month) == [kind |-> "DayOfMonth", day |-> day, month |-> month]

YearLastWeekday(month) == [kind |-> "LastWeekday", month |-> month]

\* ------------------------------------------------------------ errors

\* ScheduleError::{lex, parse, eval, cron}: the four kinds of error
Error(error) == [kind |-> "Err", error |-> error]

\* a panic: the call unwinds instead of returning
Panic == [kind |-> "Panic"]

\* ------------------------------------------------------------ the lexer
\* An input is the sequence of the bytes of a UTF-8 string. An ASCII byte is
\* written as its character; the bytes of `é` are "xC3" "xA9" and those of
\* `€` are "xE2" "x82" "xAC". Positions count bytes from 0, as in the code.

Digits == <<"0", "1", "2", "3", "4", "5", "6", "7", "8", "9">>

Letters ==
  <<"a", "b", "c", "d", "e", "f", "g", "h", "i", "j", "k", "l", "m",
    "n", "o", "p", "q", "r", "s", "t", "u", "v", "w", "x", "y", "z">>

Capitals ==
  <<"A", "B", "C", "D", "E", "F", "G", "H", "I", "J", "K", "L", "M",
    "N", "O", "P", "Q", "R", "S", "T", "U", "V", "W", "X", "Y", "Z">>

\* the spellings the lexer knows and the formatter writes
Bytes ==
  [ every |-> <<"e", "v", "e", "r", "y">>, on |-> <<"o", "n">>, at |-> <<"a", "t">>,
    from |-> <<"f", "r", "o", "m">>, to |-> <<"t", "o">>, in |-> <<"i", "n">>,
    of |-> <<"o", "f">>, the |-> <<"t", "h", "e">>, last |-> <<"l", "a", "s", "t">>,
    except |-> <<"e", "x", "c", "e", "p", "t">>, until |-> <<"u", "n", "t", "i", "l">>,
    starting |-> <<"s", "t", "a", "r", "t", "i", "n", "g">>,
    during |-> <<"d", "u", "r", "i", "n", "g">>, year |-> <<"y", "e", "a", "r">>,
    day |-> <<"d", "a", "y">>, weekday |-> <<"w", "e", "e", "k", "d", "a", "y">>,
    weekdays |-> <<"w", "e", "e", "k", "d", "a", "y", "s">>,
    weekend |-> <<"w", "e", "e", "k", "e", "n", "d">>,
    weekends |-> <<"w", "e", "e", "k", "e", "n", "d", "s">>,
    weeks |-> <<"w", "e", "e", "k", "s">>, week |-> <<"w", "e", "e", "k">>,
    month |-> <<"m", "o", "n", "t", "h">>, monday |-> <<"m", "o", "n", "d", "a", "y">>,
    mon |-> <<"m", "o", "n">>, tuesday |-> <<"t", "u", "e", "s", "d", "a", "y">>,
    tue |-> <<"t", "u", "e">>,
    wednesday |-> <<"w", "e", "d", "n", "e", "s", "d", "a", "y">>,
    wed |-> <<"w", "e", "d">>, thursday |-> <<"t", "h", "u", "r", "s", "d", "a", "y">>,
    thu |-> <<"t", "h", "u">>, friday |-> <<"f", "r", "i", "d", "a", "y">>,
    fri |-> <<"f", "r", "i">>, saturday |-> <<"s", "a", "t", "u", "r", "d", "a", "y">>,
    sat |-> <<"s", "a", "t">>, sunday |-> <<"s", "u", "n", "d", "a", "y">>,
    sun |-> <<"s", "u", "n">>, january |-> <<"j", "a", "n", "u", "a", "r", "y">>,
    jan |-> <<"j", "a", "n">>, february |-> <<"f", "e", "b", "r", "u", "a", "r", "y">>,
    feb |-> <<"f", "e", "b">>, march |-> <<"m", "a", "r", "c", "h">>,
    mar |-> <<"m", "a", "r">>, april |-> <<"a", "p", "r", "i", "l">>,
    apr |-> <<"a", "p", "r">>, may |-> <<"m", "a", "y">>, june |-> <<"j", "u", "n", "e">>,
    jun |-> <<"j", "u", "n">>, july |-> <<"j", "u", "l", "y">>, jul |-> <<"j", "u", "l">>,
    august |-> <<"a", "u", "g", "u", "s", "t">>, aug |-> <<"a", "u", "g">>,
    september |-> <<"s", "e", "p", "t", "e", "m", "b", "e", "r">>,
    sep |-> <<"s", "e", "p">>, october |-> <<"o", "c", "t", "o", "b", "e", "r">>,
    oct |-> <<"o", "c", "t">>, november |-> <<"n", "o", "v", "e", "m", "b", "e", "r">>,
    nov |-> <<"n", "o", "v">>, december |-> <<"d", "e", "c", "e", "m", "b", "e", "r">>,
    dec |-> <<"d", "e", "c">>, first |-> <<"f", "i", "r", "s", "t">>,
    second |-> <<"s", "e", "c", "o", "n", "d">>, third |-> <<"t", "h", "i", "r", "d">>,
    fourth |-> <<"f", "o", "u", "r", "t", "h">>, fifth |-> <<"f", "i", "f", "t", "h">>,
    min |-> <<"m", "i", "n">>, mins |-> <<"m", "i", "n", "s">>,
    minute |-> <<"m", "i", "n", "u", "t", "e">>,
    minutes |-> <<"m", "i", "n", "u", "t", "e", "s">>, hour |-> <<"h", "o", "u", "r">>,
    hours |-> <<"h", "o", "u", "r", "s">>, hr |-> <<"h", "r">>, hrs |-> <<"h", "r", "s">>,
    st |-> <<"s", "t">>, nd |-> <<"n", "d">>, rd |-> <<"r", "d">>, th |-> <<"t", "h">> ]

\* u8::is_ascii_digit, a leading zero, is_ascii_whitespace, is_ascii_alphabetic,
\* is_ascii_alphanumeric or `_`, and the bytes of a time zone name (all but
\* whitespace)
InClass(b, class) ==
  CASE class = "digit" -> \E i \in DOMAIN Digits : Digits[i] = b
    [] class = "zero" -> b = "0"
    [] class = "space" -> b = " "
    [] class = "alpha" -> \E i \in DOMAIN Letters : b \in {Letters[i], Capitals[i]}
    [] class = "word" ->
         \/ \E i \in DOMAIN Letters : b \in {Letters[i], Capitals[i]}
         \/ \E i \in DOMAIN Digits : Digits[i] = b
         \/ b = "_"
    [] class = "zone" -> b # " "

\* the position of the first byte at or after pos that is not in the class
RECURSIVE ScanClass(_, _, _)
ScanClass(bytes, pos, class) ==
  IF pos < Len(bytes) /\ InClass(bytes[pos + 1], class)
  THEN ScanClass(bytes, pos + 1, class)
  ELSE pos

\* str::is_char_boundary: the start, the end, or a byte that is not a
\* continuation byte
is_char_boundary(bytes, index) ==
  \/ index = 0
  \/ index = Len(bytes)
  \/ index < Len(bytes) /\ bytes[index + 1] \notin {"xA9", "x82", "xAC"}

\* str::to_lowercase on ASCII text
to_lowercase(bytes) ==
  [i \in DOMAIN bytes |->
     IF \E k \in DOMAIN Capitals : Capitals[k] = bytes[i]
     THEN Letters[CHOOSE k \in DOMAIN Capitals : Capitals[k] = bytes[i]]
     ELSE bytes[i]]

\* the value of a run of decimal digits
RECURSIVE DecimalValue(_)
DecimalValue(digits) ==
  IF digits = <<>> THEN 0
  ELSE 10 * DecimalValue(SubSeq(digits, 1, Len(digits) - 1))
         + (CHOOSE i \in DOMAIN Digits : Digits[i] = digits[Len(digits)]) - 1

\* a token and the position after it
Lexed(tok, pos) == [kind |-> "Tok", tok |-> tok, pos |-> pos]

\* Lexer::lex_number_or_time_or_date, called on a digit at start
lex_number_or_time_or_date(bytes, start) ==
  LET len == Len(bytes)
      At(i) == bytes[i + 1]
      Digit(i) == InClass(At(i), "digit")
      Suffix(num, pos) ==
        IF pos + 1 < len
        THEN IF ~is_char_boundary(bytes, pos + 2) THEN Panic
             ELSE IF to_lowercase(SubSeq(bytes, pos + 1, pos + 2))
                       \in {Bytes.st, Bytes.nd, Bytes.rd, Bytes.th}
                  THEN Lexed([kind |-> "OrdinalNumber", n |-> num], pos + 2)
                  ELSE Lexed([kind |-> "Number", n |-> num], pos)
        ELSE Lexed([kind |-> "Number", n |-> num], pos)
      \* str::parse::<u32>: an error above u32::MAX = 4294967295
      Overflows(significant) ==
        \/ Len(significant) > 10
        \/ /\ Len(significant) = 10
           /\ LET Above(high, low) == high > 42949 \/ (high = 42949 /\ low > 67295)
              IN Above(DecimalValue(SubSeq(significant, 1, 5)),
                       DecimalValue(SubSeq(significant, 6, 10)))
      Number(digits, pos) ==
        IF Overflows(SubSeq(digits, ScanClass(digits, 0, "zero") + 1, Len(digits)))
        THEN Error("Lex")
        ELSE Suffix(DecimalValue(digits), pos)
      Time(hour, minute, pos) ==
        IF hour > 23 \/ minute > 59 THEN Error("Lex")
        ELSE Lexed([kind |-> "Time", hour |-> hour, minute |-> minute], pos)
      Minutes(digits, min_start, pos) ==
        IF pos - min_start = 2
        THEN Time(DecimalValue(digits), DecimalValue(SubSeq(bytes, min_start + 1, pos)), pos)
        ELSE Number(digits, pos)
      After(digits, pos) ==
        IF /\ Len(digits) = 4 /\ pos < len /\ At(pos) = "-" /\ pos + 3 <= len
           /\ len - pos >= 6 /\ len - start >= 10
           /\ At(start + 4) = "-" /\ Digit(start + 5) /\ Digit(start + 6)
           /\ At(start + 7) = "-" /\ Digit(start + 8) /\ Digit(start + 9)
        THEN Lexed([kind |-> "IsoDate", text |-> SubSeq(bytes, start + 1, start + 10)],
                   start + 10)
        ELSE IF Len(digits) \in {1, 2} /\ pos < len /\ At(pos) = ":"
        THEN Minutes(digits, pos + 1, ScanClass(bytes, pos + 1, "digit"))
        ELSE Number(digits, pos)
      Read(pos) == After(SubSeq(bytes, start + 1, pos), pos)
  IN Read(ScanClass(bytes, start, "digit"))

\* Lexer::lex_word, called on a letter at start
lex_word(bytes, start) ==
  LET Keyword(kind, pos) == Lexed([kind |-> kind], pos)
      Name(kind, name, pos) == Lexed([kind |-> kind, name |-> name], pos)
      Match(word, pos) ==
        CASE word = Bytes.every -> Keyword("Every", pos)
          [] word = Bytes.on -> Keyword("On", pos)
          [] word = Bytes.at -> Keyword("At", pos)
          [] word = Bytes.from -> Keyword("From", pos)
          [] word = Bytes.to -> Keyword("To", pos)
          [] word = Bytes.in -> Keyword("In", pos)
          [] word = Bytes.of -> Keyword("Of", pos)
          [] word = Bytes.the -> Keyword("The", pos)
          [] word = Bytes.last -> Keyword("Last", pos)
          [] word = Bytes.except -> Keyword("Except", pos)
          [] word = Bytes.until -> Keyword("Until", pos)
          [] word = Bytes.starting -> Keyword("Starting", pos)
          [] word = Bytes.during -> Keyword("During", pos)
          [] word = Bytes.year -> Keyword("Year", pos)
          [] word = Bytes.day -> Keyword("Day", pos)
          [] word \in {Bytes.weekday, Bytes.weekdays} -> Keyword("Weekday", pos)
          [] word \in {Bytes.weekend, Bytes.weekends} -> Keyword("Weekend", pos)
          [] word \in {Bytes.weeks, Bytes.week} -> Keyword("Weeks", pos)
          [] word = Bytes.month -> Keyword("Month", pos)
          [] word \in {Bytes.monday, Bytes.mon} -> Name("DayName", "monday", pos)
          [] word \in {Bytes.tuesday, Bytes.tue} -> Name("DayName", "tuesday", pos)
          [] word \in {Bytes.wednesday, Bytes.wed} -> Name("DayName", "wednesday", pos)
          [] word \in {Bytes.thursday, Bytes.thu} -> Name("DayName", "thursday", pos)
          [] word \in {Bytes.friday, Bytes.fri} -> Name("DayName", "friday", pos)
          [] word \in {Bytes.saturday, Bytes.sat} -> Name("DayName", "saturday", pos)
          [] word \in {Bytes.sunday, Bytes.sun} -> Name("DayName", "sunday", pos)
          [] word \in {Bytes.january, Bytes.jan} -> Name("MonthName", "jan", pos)
          [] word \in {Bytes.february, Bytes.feb} -> Name("MonthName", "feb", pos)
          [] word \in {Bytes.march, Bytes.mar} -> Name("MonthName", "mar", pos)
          [] word \in {Bytes.april, Bytes.apr} -> Name("MonthName", "apr", pos)
          [] word = Bytes.may -> Name("MonthName", "may", pos)
          [] word \in {Bytes.june, Bytes.jun} -> Name("MonthName", "jun", pos)
          [] word \in {Bytes.july, Bytes.jul} -> Name("MonthName", "jul", pos)
          [] word \in {Bytes.august, Bytes.aug} -> Name("MonthName", "aug", pos)
          [] word \in {Bytes.september, Bytes.sep} -> Name("MonthName", "sep", pos)
          [] word \in {Bytes.october, Bytes.oct} -> Name("MonthName", "oct", pos)
          [] word \in {Bytes.november, Bytes.nov} -> Name("MonthName", "nov", pos)
          [] word \in {Bytes.december, Bytes.dec} -> Name("MonthName", "dec", pos)
          [] word = Bytes.first -> Name("Ordinal", "first", pos)
          [] word = Bytes.second -> Name("Ordinal", "second", pos)
          [] word = Bytes.third -> Name("Ordinal", "third", pos)
          [] word = Bytes.fourth -> Name("Ordinal", "fourth", pos)
          [] word = Bytes.fifth -> Name("Ordinal", "fifth", pos)
          [] word \in {Bytes.min, Bytes.mins, Bytes.minute, Bytes.minutes} ->
               Name("IntervalUnit", "min", pos)
          [] word \in {Bytes.hour, Bytes.hours, Bytes.hr, Bytes.hrs} ->
               Name("IntervalUnit", "hours", pos)
          [] OTHER -> Error("Lex")
      Read(pos) == Match(to_lowercase(SubSeq(bytes, start + 1, pos)), pos)
  IN Read(ScanClass(bytes, start, "word"))

\* Lexer::tokenize from position pos on, with the tokens read so far; the
\* whole input is tokenize(input, 0, FALSE, <<>>)
RECURSIVE tokenize(_, _, _, _)
tokenize(bytes, pos, after_in, tokens) ==
  LET Push(r) ==
        IF r.kind = "Tok"
        THEN tokenize(bytes, r.pos, r.tok.kind = "In", Append(tokens, r.tok))
        ELSE r
      At(start) ==
        IF start >= Len(bytes) THEN [kind |-> "Ok", tokens |-> tokens]
        ELSE IF after_in
        THEN LET Zone(end) ==
                   Lexed([kind |-> "Timezone", text |-> SubSeq(bytes, start + 1, end)], end)
             IN Push(Zone(ScanClass(bytes, start, "zone")))
        ELSE IF bytes[start + 1] = "," THEN Push(Lexed([kind |-> "Comma"], start + 1))
        ELSE IF InClass(bytes[start + 1], "digit")
        THEN Push(lex_number_or_time_or_date(bytes, start))
        ELSE IF InClass(bytes[start + 1], "alpha") THEN Push(lex_word(bytes, start))
        ELSE Error("Lex")
  IN At(ScanClass(bytes, pos, "space"))

\* ------------------------------------------------------------ the parser

\* Weekday::as_str in the order of Weekday::number, MonthName::as_str in the
\* order of MonthName::number
WeekdayNames ==
  <<"monday", "tuesday", "wednesday", "thursday", "friday", "saturday", "sunday">>

MonthNames ==
  <<"jan", "feb", "mar", "apr", "may", "jun", "jul", "aug", "sep", "oct", "nov", "dec">>

\* OrdinalPosition::as_str
OrdinalNames ==
  [First |-> "first", Second |-> "second", Third |-> "third", Fourth |-> "fourth",
   Fifth |-> "fifth", Last |-> "last"]

\* a parsed value and the index of the next token; a parse error
Parsed(val, at) == [ok |-> TRUE, val |-> val, at |-> at]

\* item (',' item)*: parse_time_list, parse_day_list, parse_month_list,
\* parse_ordinal_day_list and parse_exception_list
RECURSIVE CommaList(_, _, _, _)
CommaList(Item(_), tokens, i, acc) ==
  LET More(r) ==
        IF ~r.ok THEN r
        ELSE IF r.at <= Len(tokens) /\ tokens[r.at].kind = "Comma"
        THEN CommaList(Item, tokens, r.at + 1, Append(acc, r.val))
        ELSE Parsed(Append(acc, r.val), r.at)
  IN More(Item(i))

\* str::parse::<jiff::civil::Date> of the ten bytes of an IsoDate token
ParseIsoDate(text) ==
  DateNew(DecimalValue(SubSeq(text, 1, 4)), DecimalValue(SubSeq(text, 6, 7)),
          DecimalValue(SubSeq(text, 9, 10)))

\* ---- Parser::parse_expression and the functions it calls, on the token
\* ---- list and the index of the next token

\* a parse error
ParseFail == [ok |-> FALSE]

\* Parser::peek_kind: the kind of the token at i, or the end
TokenKind(tokens, i) == IF i <= Len(tokens) THEN tokens[i].kind ELSE "End"

IndexOf(names, name) == CHOOSE k \in DOMAIN names : names[k] = name

\* Parser::consume_kind: the expected token, then the rest
Expect(tokens, kind, i, Then(_)) ==
  IF TokenKind(tokens, i) = kind THEN Then(i + 1) ELSE ParseFail

\* the `?` operator on a parsed value
ParseBind(r, Then(_, _)) == IF r.ok THEN Then(r.val, r.at) ELSE ParseFail

parse_time(tokens, i) ==
  IF TokenKind(tokens, i) = "Time"
  THEN Parsed(TimeOfDay(tokens[i].hour, tokens[i].minute), i + 1)
  ELSE ParseFail

parse_time_list(tokens, i) == CommaList(LAMBDA j : parse_time(tokens, j), tokens, i, <<>>)

\* parse_day_name
day_name(tokens, i) ==
  IF TokenKind(tokens, i) = "DayName"
  THEN Parsed(IndexOf(WeekdayNames, tokens[i].name), i + 1)
  ELSE ParseFail

parse_day_list(tokens, i) == CommaList(LAMBDA j : day_name(tokens, j), tokens, i, <<>>)

parse_month_name_token(tokens, i) ==
  IF TokenKind(tokens, i) = "MonthName"
  THEN Parsed(IndexOf(MonthNames, tokens[i].name), i + 1)
  ELSE ParseFail

parse_month_list(tokens, i) ==
  CommaList(LAMBDA j : parse_month_name_token(tokens, j), tokens, i, <<>>)

\* parse_day_number: `*n as u8` on a Number or an OrdinalNumber
day_number(tokens, i) ==
  IF TokenKind(tokens, i) \in {"Number", "OrdinalNumber"}
  THEN Parsed(tokens[i].n % 256, i + 1)
  ELSE ParseFail

parse_ordinal_day_number(tokens, i) ==
  IF TokenKind(tokens, i) = "OrdinalNumber" THEN Parsed(tokens[i].n % 256, i + 1)
  ELSE ParseFail

parse_ordinal_day_spec(tokens, i) ==
  ParseBind(parse_ordinal_day_number(tokens, i),
            LAMBDA start, at :
              IF TokenKind(tokens, at) = "To"
              THEN ParseBind(parse_ordinal_day_number(tokens, at + 1),
                             LAMBDA end, after : Parsed(Range(start, end), after))
              ELSE Parsed(Single(start), at))

parse_ordinal_day_list(tokens, i) ==
  CommaList(LAMBDA j : parse_ordinal_day_spec(tokens, j), tokens, i, <<>>)

\* parse_iso_date: the date of an IsoDate token, which must be a real one
iso_date(tokens, i) ==
  LET Valid(date) == IF date.some THEN Parsed(date.val, i + 1) ELSE ParseFail
  IN IF TokenKind(tokens, i) = "IsoDate" THEN Valid(ParseIsoDate(tokens[i].text))
     ELSE ParseFail

\* parse_exception, parse_until_spec and parse_date_target
parse_date_target(tokens, i) ==
  IF TokenKind(tokens, i) = "IsoDate"
  THEN ParseBind(iso_date(tokens, i), LAMBDA date, at : Parsed(Iso(date), at))
  ELSE ParseBind(parse_month_name_token(tokens, i),
                 LAMBDA month, at :
                   ParseBind(day_number(tokens, at),
                             LAMBDA day, after : Parsed(Named(month, day), after)))

parse_exception_list(tokens, i) ==
  CommaList(LAMBDA j : parse_date_target(tokens, j), tokens, i, <<>>)

parse_ordinal_position(tokens, i) ==
  IF TokenKind(tokens, i) = "Ordinal"
  THEN Parsed(CHOOSE o \in DOMAIN OrdinalNames : OrdinalNames[o] = tokens[i].name, i + 1)
  ELSE IF TokenKind(tokens, i) = "Last" THEN Parsed("Last", i + 1)
  ELSE ParseFail

\* "at" and the time list that ends every timed expression
AtTimes(tokens, i, Expr(_)) ==
  Expect(tokens, "At", i,
         LAMBDA at : ParseBind(parse_time_list(tokens, at),
                               LAMBDA times, after : Parsed(Expr(times), after)))

parse_day_repeat(tokens, interval, days, i) ==
  IF days = Every
  THEN Expect(tokens, "Day", i,
              LAMBDA at : AtTimes(tokens, at, LAMBDA times : DayRepeat(interval, days, times)))
  ELSE AtTimes(tokens, i, LAMBDA times : DayRepeat(interval, days, times))

parse_day_target(tokens, i) ==
  CASE TokenKind(tokens, i) = "Day" -> Parsed(Every, i + 1)
    [] TokenKind(tokens, i) = "Weekday" -> Parsed(WeekdayFilter, i + 1)
    [] TokenKind(tokens, i) = "Weekend" -> Parsed(WeekendFilter, i + 1)
    [] TokenKind(tokens, i) = "DayName" ->
         ParseBind(parse_day_list(tokens, i), LAMBDA days, at : Parsed(Days(days), at))
    [] OTHER -> ParseFail

\* the day filter after the window of an interval, if there is one
IntervalFilter(tokens, i) ==
  IF TokenKind(tokens, i) = "On"
  THEN ParseBind(parse_day_target(tokens, i + 1),
                 LAMBDA filter, at : Parsed(Some(filter), at))
  ELSE Parsed(None, i)

IntervalUnitOf(name) == IF name = "min" THEN "Minutes" ELSE "Hours"

\* called on the IntervalUnit token
parse_interval_repeat(tokens, interval, i) ==
  Expect(tokens, "From", i + 1,
         LAMBDA j :
           ParseBind(parse_time(tokens, j),
                     LAMBDA from, at :
                       Expect(tokens, "To", at,
                              LAMBDA k :
                                ParseBind(parse_time(tokens, k),
                                          LAMBDA to, after :
                                            ParseBind(IntervalFilter(tokens, after),
                                                      LAMBDA day_filter, end :
                                                        Parsed(IntervalRepeat(
                                                                 interval,
                                                                 IntervalUnitOf(tokens[i].name),
                                                                 from, to, day_filter),
                                                               end))))))

parse_week_repeat(tokens, interval, i) ==
  Expect(tokens, "On", i,
         LAMBDA j :
           ParseBind(parse_day_list(tokens, j),
                     LAMBDA days, at :
                       AtTimes(tokens, at, LAMBDA times : WeekRepeat(interval, days, times))))

\* the target after "on the"
parse_month_target(tokens, j) ==
  CASE TokenKind(tokens, j) = "Last" /\ TokenKind(tokens, j + 1) = "Day" ->
         Parsed(LastDay, j + 2)
    [] TokenKind(tokens, j) = "Last" /\ TokenKind(tokens, j + 1) = "Weekday" ->
         Parsed(LastWeekday, j + 2)
    [] TokenKind(tokens, j) = "OrdinalNumber" ->
         ParseBind(parse_ordinal_day_list(tokens, j),
                   LAMBDA specs, at : Parsed(DaysTarget(specs), at))
    [] OTHER -> ParseFail

parse_month_repeat(tokens, interval, i) ==
  Expect(tokens, "On", i,
         LAMBDA j :
           Expect(tokens, "The", j,
                  LAMBDA k :
                    ParseBind(parse_month_target(tokens, k),
                              LAMBDA target, at :
                                AtTimes(tokens, at,
                                        LAMBDA times : MonthRepeat(interval, target, times)))))

\* the interval after "of every": a number that is not 0, or 1
OrdinalInterval(tokens, i) ==
  IF TokenKind(tokens, i) = "Number"
  THEN (IF tokens[i].n = 0 THEN ParseFail ELSE Parsed(tokens[i].n, i + 1))
  ELSE Parsed(1, i)

parse_ordinal_repeat(tokens, i) ==
  ParseBind(parse_ordinal_position(tokens, i),
            LAMBDA ordinal, at :
              ParseBind(day_name(tokens, at),
                        LAMBDA day, after :
                          Expect(tokens, "Of", after,
                                 LAMBDA j :
                                   Expect(tokens, "Every", j,
                                          LAMBDA k :
                                            ParseBind(OrdinalInterval(tokens, k),
                                                      LAMBDA interval, m :
                                                        Expect(tokens, "Month", m,
                                                               LAMBDA n :
                                                                 AtTimes(tokens, n,
                                                                         LAMBDA times :
                                                                           OrdinalRepeat(
                                                                             interval, ordinal,
                                                                             day, times))))))))

\* "of" and a month name
OfMonth(tokens, i, Target(_)) ==
  Expect(tokens, "Of", i,
         LAMBDA j : ParseBind(parse_month_name_token(tokens, j),
                              LAMBDA month, at : Parsed(Target(month), at)))

\* a weekday and "of" a month after the ordinal
YearWeekdayOf(tokens, ordinal, i) ==
  ParseBind(day_name(tokens, i),
            LAMBDA weekday, after :
              OfMonth(tokens, after,
                      LAMBDA month : YearOrdinalWeekday(ordinal, weekday, month)))

parse_year_target_after_the(tokens, i) ==
  CASE TokenKind(tokens, i) = "Last" /\ TokenKind(tokens, i + 1) = "Weekday" ->
         OfMonth(tokens, i + 2, YearLastWeekday)
    [] TokenKind(tokens, i) = "Last" /\ TokenKind(tokens, i + 1) = "DayName" ->
         YearWeekdayOf(tokens, "Last", i + 1)
    [] TokenKind(tokens, i) = "Ordinal" ->
         ParseBind(parse_ordinal_position(tokens, i),
                   LAMBDA ordinal, at : YearWeekdayOf(tokens, ordinal, at))
    [] TokenKind(tokens, i) = "OrdinalNumber" ->
         ParseBind(parse_ordinal_day_number(tokens, i),
                   LAMBDA day, at :
                     OfMonth(tokens, at, LAMBDA month : YearDayOfMonth(day, month)))
    [] OTHER -> ParseFail

\* the target after "on"
parse_year_target(tokens, j) ==
  CASE TokenKind(tokens, j) = "The" -> parse_year_target_after_the(tokens, j + 1)
    [] TokenKind(tokens, j) = "MonthName" ->
         ParseBind(parse_month_name_token(tokens, j),
                   LAMBDA month, at :
                     ParseBind(day_number(tokens, at),
                               LAMBDA day, after : Parsed(YearDate(month, day), after)))
    [] OTHER -> ParseFail

parse_year_repeat(tokens, interval, i) ==
  Expect(tokens, "On", i,
         LAMBDA j :
           ParseBind(parse_year_target(tokens, j),
                     LAMBDA target, at :
                       AtTimes(tokens, at,
                               LAMBDA times : YearRepeat(interval, target, times))))

\* the expression after `every <n>`, with the number at i - 1
NumberRepeat(tokens, num, i) ==
  CASE TokenKind(tokens, i) = "Weeks" -> parse_week_repeat(tokens, num, i + 1)
    [] TokenKind(tokens, i) = "IntervalUnit" -> parse_interval_repeat(tokens, num, i)
    [] TokenKind(tokens, i) = "Day" -> parse_day_repeat(tokens, num, Every, i)
    [] TokenKind(tokens, i) = "Month" -> parse_month_repeat(tokens, num, i + 1)
    [] TokenKind(tokens, i) = "Year" -> parse_year_repeat(tokens, num, i + 1)
    [] OTHER -> ParseFail

parse_number_repeat(tokens, i) ==
  IF tokens[i].n = 0 THEN ParseFail ELSE NumberRepeat(tokens, tokens[i].n, i + 1)

parse_every(tokens, i) ==
  CASE TokenKind(tokens, i) = "Year" -> parse_year_repeat(tokens, 1, i + 1)
    [] TokenKind(tokens, i) = "Day" -> parse_day_repeat(tokens, 1, Every, i)
    [] TokenKind(tokens, i) = "Weekday" -> parse_day_repeat(tokens, 1, WeekdayFilter, i + 1)
    [] TokenKind(tokens, i) = "Weekend" -> parse_day_repeat(tokens, 1, WeekendFilter, i + 1)
    [] TokenKind(tokens, i) = "DayName" ->
         ParseBind(parse_day_list(tokens, i),
                   LAMBDA days, at : parse_day_repeat(tokens, 1, Days(days), at))
    [] TokenKind(tokens, i) = "Month" -> parse_month_repeat(tokens, 1, i + 1)
    [] TokenKind(tokens, i) = "Number" -> parse_number_repeat(tokens, i)
    [] OTHER -> ParseFail

parse_on(tokens, i) ==
  ParseBind(parse_date_target(tokens, i),
            LAMBDA date, at : AtTimes(tokens, at, LAMBDA times : SingleDate(date, times)))

\* an optional clause of parse_trailing_clauses: the keyword and what Item
\* reads after it, or its absence
Clause(tokens, keyword, Item(_), absent, i) ==
  IF TokenKind(tokens, i) = keyword THEN Item(i + 1) ELSE Parsed(absent, i)

\* the time zone after `in`
parse_zone(tokens, i) ==
  IF TokenKind(tokens, i) = "Timezone" THEN Parsed(Some(tokens[i].text), i + 1)
  ELSE ParseFail

\* Some(item)
Optional(r) == IF r.ok THEN Parsed(Some(r.val), r.at) ELSE r

\* except, until, starting, during and in, each at most once and in this order
parse_trailing_clauses(tokens, expr, i) ==
  ParseBind(Clause(tokens, "Except", LAMBDA j : parse_exception_list(tokens, j), <<>>, i),
    LAMBDA except, a :
  ParseBind(Clause(tokens, "Until", LAMBDA j : Optional(parse_date_target(tokens, j)),
                   None, a),
    LAMBDA until, b :
  ParseBind(Clause(tokens, "Starting", LAMBDA j : Optional(iso_date(tokens, j)), None, b),
    LAMBDA anchor, c :
  ParseBind(Clause(tokens, "During", LAMBDA j : parse_month_list(tokens, j), <<>>, c),
    LAMBDA during, d :
  ParseBind(Clause(tokens, "In", LAMBDA j : parse_zone(tokens, j), None, d),
    LAMBDA timezone, e :
      Parsed([ScheduleNew(expr) EXCEPT !.except = except, !.until = until,
                                       !.anchor = anchor, !.during = during,
                                       !.timezone = timezone], e))))))

\* the expression the first token starts
ParseExpr(tokens) ==
  CASE TokenKind(tokens, 1) = "Every" -> parse_every(tokens, 2)
    [] TokenKind(tokens, 1) = "On" -> parse_on(tokens, 2)
    [] TokenKind(tokens, 1) \in {"Ordinal", "Last"} -> parse_ordinal_repeat(tokens, 1)
    [] OTHER -> ParseFail

\* Parser::parse_expression on the whole token list
parse_expression(tokens) ==
  ParseBind(ParseExpr(tokens), LAMBDA expr, at : parse_trailing_clauses(tokens, expr, at))

\* parser::parse, Schedule::parse: the lexer, then the parser on all the tokens
parse(input) ==
  LET Whole(tokens, r) ==
        IF r.ok /\ r.at > Len(tokens) THEN [kind |-> "Ok", schedule |-> r.val]
        ELSE Error("Parse")
      Tokens(lexed) ==
        IF lexed.kind # "Ok" THEN lexed
        ELSE IF lexed.tokens = <<>> THEN Error("Parse")
        ELSE Whole(lexed.tokens, parse_expression(lexed.tokens))
  IN Tokens(tokenize(input, 0, FALSE, <<>>))

\* ------------------------------------------------------------ the formatter

\* the decimal digits of a number, as `{}` writes an integer
RECURSIVE Decimal(_)
Decimal(n) ==
  IF n < 10 THEN <<Digits[n + 1]>>
  ELSE Decimal(n \div 10) \o <<Digits[(n % 10) + 1]>>

\* no padding at all
Unpadded(digits, width) == digits

\* `{:0width}`: zeros on the left up to the width
RECURSIVE Padded(_, _)
Padded(digits, width) ==
  IF Len(digits) < width THEN Padded(<<"0">> \o digits, width) ELSE digits

\* the texts of a list with a separator between them
RECURSIVE Joined(_, _)
Joined(texts, separator) ==
  IF Len(texts) = 1 THEN texts[1]
  ELSE texts[1] \o separator \o Joined(Tail(texts), separator)

\* impl Display for Schedule, for ScheduleExpr, TimeOfDay and DayFilter
display(schedule) ==
  LET Sp == <<" ">>
      Each(items, Text(_)) == Joined([i \in DOMAIN items |-> Text(items[i])], <<",", " ">>)
      ordinal_suffix(n) ==
        IF n % 100 \in 11..13 THEN Bytes.th
        ELSE CASE n % 10 = 1 -> Bytes.st
               [] n % 10 = 2 -> Bytes.nd
               [] n % 10 = 3 -> Bytes.rd
               [] OTHER -> Bytes.th
      Nth(n) == Decimal(n) \o ordinal_suffix(n)
      Time(t) == Padded(Decimal(t.hour), 2) \o <<":">> \o Padded(Decimal(t.minute), 2)
      write_time_list(times) == Each(times, Time)
      Day(d) == Bytes[WeekdayNames[d]]
      write_day_list(days) == Each(days, Day)
      Month(m) == Bytes[MonthNames[m]]
      Date(c) ==
        Padded(Decimal(c.year), 4) \o <<"-">> \o Padded(Decimal(c.month), 2)
          \o <<"-">> \o Padded(Decimal(c.day), 2)
      \* Exception, UntilSpec and DateSpec: `{month} {day}` or the ISO date
      DateSpec(d) ==
        IF d.kind = "Named" THEN Month(d.month) \o Sp \o Decimal(d.day)
        ELSE Date(CivilFromDays(d.date))
      DayFilter(f) ==
        CASE f.kind = "Every" -> Bytes.day
          [] f.kind = "Weekday" -> Bytes.weekday
          [] f.kind = "Weekend" -> Bytes.weekend
          [] f.kind = "Days" -> write_day_list(f.days)
      unit_display(interval, unit) ==
        IF unit = "Minutes"
        THEN (IF interval = 1 THEN Bytes.minute ELSE Bytes.min)
        ELSE (IF interval = 1 THEN Bytes.hour ELSE Bytes.hours)
      DaySpec(s) ==
        IF s.kind = "Single" THEN Nth(s.day)
        ELSE Nth(s.start) \o Sp \o Bytes.to \o Sp \o Nth(s.end)
      MonthTarget(t) ==
        CASE t.kind = "Days" -> Each(t.specs, DaySpec)
          [] t.kind = "LastDay" -> Bytes.last \o Sp \o Bytes.day
          [] t.kind = "LastWeekday" -> Bytes.last \o Sp \o Bytes.weekday
      YearTarget(t) ==
        CASE t.kind = "Date" -> Month(t.month) \o Sp \o Decimal(t.day)
          [] t.kind = "OrdinalWeekday" ->
               Bytes.the \o Sp \o Bytes[OrdinalNames[t.ordinal]] \o Sp \o Day(t.weekday)
                 \o Sp \o Bytes.of \o Sp \o Month(t.month)
          [] t.kind = "DayOfMonth" ->
               Bytes.the \o Sp \o Nth(t.day) \o Sp \o Bytes.of \o Sp \o Month(t.month)
          [] t.kind = "LastWeekday" ->
               Bytes.the \o Sp \o Bytes.last \o Sp \o Bytes.weekday \o Sp \o Bytes.of
                 \o Sp \o Month(t.month)
      WriteTimes(times) == Sp \o Bytes.at \o Sp \o write_time_list(times)
      Expr(e) ==
        CASE e.kind = "IntervalRepeat" ->
               Bytes.every \o Sp \o Decimal(e.interval) \o Sp
                 \o unit_display(e.interval, e.unit) \o Sp \o Bytes.from \o Sp
                 \o Time(e.from) \o Sp \o Bytes.to \o Sp \o Time(e.to)
                 \o (IF e.day_filter.some
                     THEN Sp \o Bytes.on \o Sp \o DayFilter(e.day_filter.val)
                     ELSE <<>>)
          [] e.kind = "DayRepeat" ->
               Bytes.every \o Sp \o DayFilter(e.days) \o WriteTimes(e.times)
          [] e.kind = "WeekRepeat" ->
               Bytes.every \o Sp \o Decimal(e.interval) \o Sp \o Bytes.weeks \o Sp
                 \o Bytes.on \o Sp \o write_day_list(e.days) \o WriteTimes(e.times)
          [] e.kind = "MonthRepeat" ->
               Bytes.every \o Sp \o Bytes.month \o Sp \o Bytes.on \o Sp \o Bytes.the
                 \o Sp \o MonthTarget(e.target) \o WriteTimes(e.times)
          [] e.kind = "OrdinalRepeat" ->
               Bytes[OrdinalNames[e.ordinal]] \o Sp \o Day(e.day) \o Sp \o Bytes.of
                 \o Sp \o Bytes.every \o Sp \o Bytes.month \o WriteTimes(e.times)
          [] e.kind = "SingleDate" ->
               Bytes.on \o Sp \o DateSpec(e.date) \o WriteTimes(e.times)
          [] e.kind = "YearRepeat" ->
               Bytes.every \o Sp \o Bytes.year \o Sp \o Bytes.on \o Sp
                 \o YearTarget(e.target) \o WriteTimes(e.times)
      Except ==
        IF schedule.except = <<>> THEN <<>>
        ELSE Sp \o Bytes.except \o Sp \o Each(schedule.except, DateSpec)
      Until ==
        IF schedule.until.some THEN Sp \o Bytes.until \o Sp \o DateSpec(schedule.until.val)
        ELSE <<>>
      Starting ==
        IF schedule.anchor.some
        THEN Sp \o Bytes.starting \o Sp \o Date(CivilFromDays(schedule.anchor.val))
        ELSE <<>>
      During ==
        IF schedule.during = <<>> THEN <<>>
        ELSE Sp \o Bytes.during \o Sp \o Each(schedule.during, Month)
      In ==
        IF schedule.timezone.some THEN Sp \o Bytes.in \o Sp \o schedule.timezone.val
        ELSE <<>>
  IN Expr(schedule.expr) \o Except \o Until \o Starting \o During \o In

\* ------------------------------------------------------------ cron

\* str::split_once: the text before and after the first separator, if any
split_once(bytes, separator) ==
  LET At(i) == [some |-> TRUE, before |-> SubSeq(bytes, 1, i - 1),
                after |-> SubSeq(bytes, i + 1, Len(bytes))]
  IN IF \E i \in DOMAIN bytes : bytes[i] = separator
     THEN At(CHOOSE i \in DOMAIN bytes :
               bytes[i] = separator /\ \A j \in 1..(i - 1) : bytes[j] # separator)
     ELSE None

\* str::split: the pieces between the separators, empty ones included
RECURSIVE Split(_, _)
Split(bytes, separator) ==
  LET Cut(r) == IF r.some THEN <<r.before>> \o Split(r.after, separator) ELSE <<bytes>>
  IN Cut(split_once(bytes, separator))

\* str::parse::<u8> with max = 255, and ::<u32> on the small numbers of the
\* inputs: decimal digits only, and no value above max
parse_number(bytes, max) ==
  LET Within(n) == IF n <= max THEN Some(n) ELSE None
      Value(significant) ==
        IF Len(significant) > 9 THEN None ELSE Within(DecimalValue(significant))
  IN IF bytes = <<>> \/ ScanClass(bytes, 0, "digit") < Len(bytes) THEN None
     ELSE Value(SubSeq(bytes, ScanClass(bytes, 0, "zero") + 1, Len(bytes)))

\* a value; the error is Error("Cron")
Value(val) == [kind |-> "Ok", val |-> val]

\* the lists the parts of a field stand for, one after the other, or the
\* first error
RECURSIVE Collect(_, _, _)
Collect(Part(_), parts, acc) ==
  LET Add(r) ==
        IF r.kind = "Ok" THEN Collect(Part, Tail(parts), acc \o r.val) ELSE r
  IN IF parts = <<>> THEN Value(acc) ELSE Add(Part(parts[1]))

\* to_cron on an IntervalRepeat whose window is the whole day, every day
IntervalToCronAnyStep(interval, unit) ==
  IF unit = "Minutes"
  THEN Value(<<"*", "/">> \o Decimal(interval) \o <<" ", "*", " ", "*", " ", "*", " ", "*">>)
  ELSE Value(<<"0", " ", "*", "/">> \o Decimal(interval) \o <<" ", "*", " ", "*", " ", "*">>)

\* to_cron on an IntervalRepeat whose window is the whole day, every day:
\* `60 % interval` divides by zero on an interval of 0
IntervalToCron(interval, unit) ==
  IF unit = "Minutes"
  THEN IF interval = 0 THEN Panic
       ELSE IF 60 % interval # 0 THEN Error("Cron")
       ELSE Value(<<"*", "/">> \o Decimal(interval)
                    \o <<" ", "*", " ", "*", " ", "*", " ", "*">>)
  ELSE Value(<<"0", " ", "*", "/">> \o Decimal(interval) \o <<" ", "*", " ", "*", " ", "*">>)

\* cron::to_cron, day_filter_to_cron_dow and cron_dow_number
to_cron(schedule) ==
  LET Sp == <<" ">>
      Star == <<"*">>
      Numbers(ns) ==
        IF ns = <<>> THEN <<>>
        ELSE Joined([i \in DOMAIN ns |-> Decimal(ns[i])], <<",">>)
      Fields(time, dom, dow) ==
        Value(Decimal(time.minute) \o Sp \o Decimal(time.hour) \o Sp \o dom \o Sp
                \o Star \o Sp \o dow)
      day_filter_to_cron_dow(filter) ==
        CASE filter.kind = "Every" -> Star
          [] filter.kind = "Weekday" -> <<"1", "-", "5">>
          [] filter.kind = "Weekend" -> <<"0", ",", "6">>
          [] filter.kind = "Days" ->
               Numbers(SortSeq([i \in DOMAIN filter.days |-> filter.days[i] % 7], <))
      Expand(spec) ==
        IF spec.kind = "Single" THEN Value(<<spec.day>>)
        ELSE Value([k \in 1..(spec.end - spec.start + 1) |-> spec.start + k - 1])
      Expr(e) ==
        CASE e.kind = "DayRepeat" ->
               IF e.interval > 1 \/ Len(e.times) # 1 THEN Error("Cron")
               ELSE Fields(e.times[1], Star, day_filter_to_cron_dow(e.days))
          [] e.kind = "IntervalRepeat" ->
               IF ~(e.from.hour = 0 /\ e.from.minute = 0 /\ e.to.hour = 23
                      /\ e.to.minute = 59)
               THEN Error("Cron")
               ELSE IF e.day_filter.some THEN Error("Cron")
               ELSE IntervalToCron(e.interval, e.unit)
          [] e.kind = "MonthRepeat" ->
               IF e.interval > 1 \/ Len(e.times) # 1 THEN Error("Cron")
               ELSE IF e.target.kind = "Days"
               THEN Fields(e.times[1], Numbers(Collect(Expand, e.target.specs, <<>>).val),
                           Star)
               ELSE Error("Cron")
          [] OTHER -> Error("Cron")
  IN IF schedule.except # <<>> \/ schedule.until.some \/ schedule.during # <<>>
     THEN Error("Cron")
     ELSE Expr(schedule.expr)

\* ---- cron::from_cron and the field parsers it calls

\* Err(ScheduleError::cron(..)), and the Ok(None) of the try_parse_* functions
CronFail == Error("Cron")
CronNext == [kind |-> "Next"]
CronStar == <<"*">>

\* the `?` operator: the value goes on, anything else is returned
CronBind(r, Then(_)) == IF r.kind = "Ok" THEN Then(r.val) ELSE r

\* s.parse().map_err(..): the number as a value
ParsedNumber(s, max) ==
  LET Of(n) == IF n.some THEN Value(n.val) ELSE CronFail
  IN Of(parse_number(s, max))

CronNumber(s, max, Then(_)) == CronBind(ParsedNumber(s, max), Then)

Has(s, b) == \E i \in DOMAIN s : s[i] = b

One(x) == Value(<<x>>)

\* start, start + step, ... up to end
Stepped(start, end, step) ==
  IF start > end THEN <<>>
  ELSE [k \in 1..((end - start) \div step + 1) |-> start + (k - 1) * step]

\* the step after a `/`, which is not 0
Step(s, Then(_)) ==
  CronNumber(s, 255, LAMBDA step : IF step = 0 THEN CronFail ELSE Then(step))

\* the two ends of `a-b`, each read by Read
Ends(range, Read(_)) ==
  CronBind(Read(split_once(range, "-").before),
           LAMBDA a : CronBind(Read(split_once(range, "-").after),
                               LAMBDA b : Value(<<a, b>>)))

Dashed(s) == split_once(s, "-").some

Byte(s) == ParsedNumber(s, 255)

\* `if start > end { return Err(..) }`
Ordered(ends) == IF ends[1] > ends[2] THEN CronFail ELSE Value(ends)

LongNames ==
  <<Bytes.january, Bytes.february, Bytes.march, Bytes.april, Bytes.may, Bytes.june,
    Bytes.july, Bytes.august, Bytes.september, Bytes.october, Bytes.november,
    Bytes.december>>

month_from_number(n) == IF n \in 1..12 THEN Value(n) ELSE CronFail

\* parse_month_name
MonthByName(word) ==
  IF \E m \in 1..12 : word \in {Bytes[MonthNames[m]], LongNames[m]}
  THEN Value(CHOOSE m \in 1..12 : word \in {Bytes[MonthNames[m]], LongNames[m]})
  ELSE CronFail

parse_month_value(s) ==
  LET Of(n) == IF n.some THEN month_from_number(n.val) ELSE MonthByName(to_lowercase(s))
  IN Of(parse_number(s, 255))

\* the months a step runs over: `*` or `a-b`
MonthRange(range) ==
  IF range = CronStar THEN Value(<<1, 12>>)
  ELSE IF Dashed(range) THEN Ends(range, parse_month_value)
  ELSE CronFail

\* one part of the month field
MonthPart(part) ==
  IF Has(part, "/")
  THEN CronBind(MonthRange(split_once(part, "/").before),
                LAMBDA ends : Step(split_once(part, "/").after,
                                   LAMBDA step : Value(Stepped(ends[1], ends[2], step))))
  ELSE IF Dashed(part)
  THEN CronBind(CronBind(Ends(part, parse_month_value), Ordered),
                LAMBDA ends : Value(Stepped(ends[1], ends[2], 1)))
  ELSE CronBind(parse_month_value(part), One)

parse_month_field(field) ==
  IF field = CronStar THEN Value(<<>>) ELSE Collect(MonthPart, Split(field, ","), <<>>)

\* validate_dom on both ends
CronValid(start, end, val) ==
  IF start \in 1..31 /\ end \in 1..31 THEN Value(val) ELSE CronFail

\* the days a step runs over: `*`, `a-b` or `a`
DomRange(range) ==
  IF range = CronStar THEN Value(<<1, 31>>)
  ELSE IF Dashed(range) THEN CronBind(Ends(range, Byte), Ordered)
  ELSE CronNumber(range, 255, LAMBDA start : Value(<<start, 31>>))

DomEvery(start, end, step) ==
  CronValid(start, end, [k \in DOMAIN Stepped(start, end, step) |->
                           Single(Stepped(start, end, step)[k])])

\* one part of the day-of-month field
DomPart(part) ==
  IF Has(part, "/")
  THEN CronBind(DomRange(split_once(part, "/").before),
                LAMBDA ends : Step(split_once(part, "/").after,
                                   LAMBDA step : DomEvery(ends[1], ends[2], step)))
  ELSE IF Dashed(part)
  THEN CronBind(CronBind(Ends(part, Byte), Ordered),
                LAMBDA ends : CronValid(ends[1], ends[2], <<Range(ends[1], ends[2])>>))
  ELSE CronNumber(part, 255, LAMBDA day : CronValid(day, day, <<Single(day)>>))

parse_dom_field(field) ==
  CronBind(Collect(DomPart, Split(field, ","), <<>>),
           LAMBDA specs : Value(DaysTarget(specs)))

ShortNames ==
  <<Bytes.sun, Bytes.mon, Bytes.tue, Bytes.wed, Bytes.thu, Bytes.fri, Bytes.sat>>

\* parse_weekday_name, as a cron number
DowByName(word) ==
  IF \E k \in 1..7 : ShortNames[k] = word
  THEN Value((CHOOSE k \in 1..7 : ShortNames[k] = word) - 1)
  ELSE CronFail

parse_dow_value_raw(s) ==
  LET Of(n) ==
        IF n.some THEN (IF n.val > 7 THEN CronFail ELSE Value(n.val))
        ELSE DowByName(to_lowercase(s))
  IN Of(parse_number(s, 255))

\* Sunday is 0 and 7 in cron and 7 in Weekday::number
cron_dow_to_weekday(n) == IF n = 0 THEN 7 ELSE n

Weekdays(ns) == Value([k \in DOMAIN ns |-> cron_dow_to_weekday(ns[k])])

\* the days of the week a step runs over: `*`, `a-b` or `a`
DowRange(range) ==
  IF range = CronStar THEN Value(<<0, 6>>)
  ELSE IF Dashed(range) THEN CronBind(Ends(range, parse_dow_value_raw), Ordered)
  ELSE CronBind(parse_dow_value_raw(range), LAMBDA start : Value(<<start, 6>>))

\* one part of the day-of-week field
DowPart(part) ==
  IF Has(part, "/")
  THEN CronBind(DowRange(split_once(part, "/").before),
                LAMBDA ends : Step(split_once(part, "/").after,
                                   LAMBDA step : Weekdays(Stepped(ends[1], ends[2], step))))
  ELSE IF Dashed(part)
  THEN CronBind(CronBind(Ends(part, parse_dow_value_raw), Ordered),
                LAMBDA ends : Weekdays(Stepped(ends[1], ends[2], 1)))
  ELSE CronBind(parse_dow_value_raw(part), LAMBDA dow : One(cron_dow_to_weekday(dow)))

\* the filter the listed days stand for
DowFilter(days) ==
  IF SortDays(days) = <<1, 2, 3, 4, 5>> THEN Value(WeekdayFilter)
  ELSE IF SortDays(days) = <<6, 7>> THEN Value(WeekendFilter)
  ELSE Value(Days(days))

parse_cron_dow(field) ==
  IF field = CronStar THEN Value(Every)
  ELSE CronBind(Collect(DowPart, Split(field, ","), <<>>), DowFilter)

\* parse_single_value on the minute and on the hour field
CronTime(minute_field, hour_field) ==
  CronNumber(minute_field, 255,
             LAMBDA minute :
               IF minute > 59 THEN CronFail
               ELSE CronNumber(hour_field, 255,
                               LAMBDA hour : IF hour > 23 THEN CronFail
                                             ELSE Value(TimeOfDay(hour, minute))))

\* Schedule::new(expr) with schedule.during = during
CronDuring(expr, during) == Value([ScheduleNew(expr) EXCEPT !.during = during])

Ordinals == <<"First", "Second", "Third", "Fourth", "Fifth">>

\* the ordinal and the day of `d#n` and of `dL`
NthOrdinal(dow_field) ==
  IF Has(dow_field, "#")
  THEN CronBind(parse_dow_value_raw(split_once(dow_field, "#").before),
                LAMBDA dow :
                  CronNumber(split_once(dow_field, "#").after, 255,
                             LAMBDA nth : IF nth = 0 \/ nth > 5 THEN CronFail
                                          ELSE Value(<<Ordinals[nth], dow % 7>>)))
  ELSE IF Len(dow_field) > 1 /\ dow_field[Len(dow_field)] = "L"
  THEN CronBind(parse_dow_value_raw(SubSeq(dow_field, 1, Len(dow_field) - 1)),
                LAMBDA dow : Value(<<"Last", dow % 7>>))
  ELSE CronNext

try_parse_nth_weekday(minute_field, hour_field, dom_field, dow_field, during) ==
  CronBind(NthOrdinal(dow_field),
           LAMBDA nth :
             IF dom_field # CronStar THEN CronFail
             ELSE CronBind(CronTime(minute_field, hour_field),
                           LAMBDA time :
                             CronDuring(OrdinalRepeat(1, nth[1],
                                                      cron_dow_to_weekday(nth[2]),
                                                      <<time>>), during)))

try_parse_last_day(minute_field, hour_field, dom_field, dow_field, during) ==
  IF dom_field \notin {<<"L">>, <<"L", "W">>} THEN CronNext
  ELSE IF dow_field # CronStar THEN CronFail
  ELSE CronBind(CronTime(minute_field, hour_field),
                LAMBDA time :
                  CronDuring(MonthRepeat(1, IF dom_field = <<"L", "W">> THEN LastWeekday
                                            ELSE LastDay, <<time>>), during))

\* the hours or the minutes a step runs over: `*`, `a-b` or `a`
StepRange(range, last) ==
  IF range = CronStar THEN Value(<<0, last>>)
  ELSE IF Dashed(range) THEN CronBind(Ends(range, Byte), Ordered)
  ELSE CronNumber(range, 255, LAMBDA start : Value(<<start, last>>))

\* `0 a-b/n * * *`: every n hours
CronHours(dom_field, dow_field, during, interval, from_hour, to_hour) ==
  IF dom_field = CronStar /\ dow_field = CronStar
  THEN CronDuring(IntervalRepeat(interval, "Hours", TimeOfDay(from_hour, 0),
                                 TimeOfDay(to_hour,
                                           IF from_hour = 0 /\ to_hour = 23 THEN 59 ELSE 0),
                                 None), during)
  ELSE CronNext

HourInterval(minute_field, hour_field, dom_field, dow_field, during) ==
  IF Has(hour_field, "/") /\ minute_field \in {<<"0">>, <<"0", "0">>}
  THEN CronNumber(split_once(hour_field, "/").after, 2147483647,
                  LAMBDA interval :
                    IF interval = 0 THEN CronFail
                    ELSE CronBind(StepRange(split_once(hour_field, "/").before, 23),
                                  LAMBDA hours :
                                    CronHours(dom_field, dow_field, during, interval,
                                              hours[1], hours[2])))
  ELSE CronNext

\* the hours of the window of a minute interval: `*`, `a-b` or `a`
MinuteWindow(hour_field) ==
  IF hour_field = CronStar THEN Value(<<0, 23>>)
  ELSE IF Dashed(hour_field) THEN Ends(hour_field, Byte)
  ELSE IF Has(hour_field, "/") THEN CronNext
  ELSE CronNumber(hour_field, 255, LAMBDA hour : Value(<<hour, hour>>))

\* the day filter of a minute interval
MinuteDays(dow_field) ==
  IF dow_field = CronStar THEN Value(None)
  ELSE CronBind(parse_cron_dow(dow_field), LAMBDA filter : Value(Some(filter)))

EndMinute(from_minute, to_minute, to_hour) ==
  IF from_minute = 0 /\ to_minute = 59 /\ to_hour = 23 THEN 59
  ELSE IF from_minute = 0 /\ to_minute = 59 THEN 0
  ELSE to_minute

\* `a-b/n h1-h2 * * d`: every n minutes
CronMinutes(minute_field, hour_field, dom_field, dow_field, during, interval, minutes, hours) ==
  CronBind(MinuteDays(dow_field),
           LAMBDA day_filter :
             IF dom_field = CronStar
             THEN CronDuring(IntervalRepeat(interval, "Minutes",
                                            TimeOfDay(hours[1], minutes[1]),
                                            TimeOfDay(hours[2],
                                                      EndMinute(minutes[1], minutes[2],
                                                                hours[2])),
                                            day_filter), during)
             ELSE HourInterval(minute_field, hour_field, dom_field, dow_field, during))

try_parse_interval(minute_field, hour_field, dom_field, dow_field, during) ==
  IF Has(minute_field, "/")
  THEN CronNumber(split_once(minute_field, "/").after, 2147483647,
                  LAMBDA interval :
                    IF interval = 0 THEN CronFail
                    ELSE CronBind(StepRange(split_once(minute_field, "/").before, 59),
                                  LAMBDA minutes :
                                    CronBind(MinuteWindow(hour_field),
                                             LAMBDA hours :
                                               CronMinutes(minute_field, hour_field,
                                                           dom_field, dow_field, during,
                                                           interval, minutes, hours))))
  ELSE HourInterval(minute_field, hour_field, dom_field, dow_field, during)

\* the days of the plain five fields: of the month or of the week
StandardDays(dom_field, dow_field) ==
  IF dom_field # CronStar /\ dow_field = CronStar
  THEN CronBind(parse_dom_field(dom_field), LAMBDA target : Value(<<"Monthly", target>>))
  ELSE CronBind(parse_cron_dow(dow_field), LAMBDA days : Value(<<"Daily", days>>))

\* the plain five fields: a time, and days of the month or of the week
Standard(minute_field, hour_field, dom_field, dow_field, during) ==
  CronBind(CronTime(minute_field, hour_field),
           LAMBDA time :
             CronBind(StandardDays(dom_field, dow_field),
                      LAMBDA on :
                        CronDuring(IF on[1] = "Monthly" THEN MonthRepeat(1, on[2], <<time>>)
                                   ELSE DayRepeat(1, on[2], <<time>>), during)))

OrNext(r, rest) == IF r.kind = "Next" THEN rest ELSE r

\* the five fields once the month field is read
CronFields(minute_field, hour_field, dom_field, dow_field, during) ==
  OrNext(try_parse_nth_weekday(minute_field, hour_field, dom_field, dow_field, during),
  OrNext(try_parse_last_day(minute_field, hour_field, dom_field, dow_field, during),
  IF dom_field[Len(dom_field)] = "W" THEN CronFail
  ELSE OrNext(try_parse_interval(minute_field, hour_field, dom_field, dow_field, during),
              Standard(minute_field, hour_field, dom_field, dow_field, during))))

Midnight == <<TimeOfDay(0, 0)>>

parse_cron_shortcut(word) ==
  CASE word \in {<<"@", "y", "e", "a", "r", "l", "y">>,
                 <<"@", "a", "n", "n", "u", "a", "l", "l", "y">>} ->
         Value(ScheduleNew(YearRepeat(1, YearDate(1, 1), Midnight)))
    [] word = <<"@", "m", "o", "n", "t", "h", "l", "y">> ->
         Value(ScheduleNew(MonthRepeat(1, DaysTarget(<<Single(1)>>), Midnight)))
    [] word = <<"@", "w", "e", "e", "k", "l", "y">> ->
         Value(ScheduleNew(DayRepeat(1, Days(<<7>>), Midnight)))
    [] word \in {<<"@", "d", "a", "i", "l", "y">>,
                 <<"@", "m", "i", "d", "n", "i", "g", "h", "t">>} ->
         Value(ScheduleNew(DayRepeat(1, Every, Midnight)))
    [] word = <<"@", "h", "o", "u", "r", "l", "y">> ->
         Value(ScheduleNew(IntervalRepeat(1, "Hours", TimeOfDay(0, 0),
                                          TimeOfDay(23, 59), None)))
    [] OTHER -> CronFail

\* `?` is `*` in the day fields
Wild(field) == IF field = <<"?">> THEN CronStar ELSE field

\* from_cron on the fields of the trimmed text
CronOf(fields) ==
  IF fields # <<>> /\ fields[1][1] = "@"
  THEN (IF Len(fields) = 1 THEN parse_cron_shortcut(to_lowercase(fields[1]))
        ELSE CronFail)
  ELSE IF Len(fields) # 5 THEN CronFail
  ELSE CronBind(parse_month_field(fields[4]),
                LAMBDA during : CronFields(fields[1], fields[2], Wild(fields[3]),
                                           Wild(fields[5]), during))

\* cron::from_cron: str::trim and split_whitespace give the pieces that are
\* not empty
from_cron(cron) ==
  LET Schedule_(r) == IF r.kind = "Ok" THEN [kind |-> "Ok", schedule |-> r.val] ELSE r
  IN Schedule_(CronOf(SelectSeq(Split(cron, " "), LAMBDA piece : piece # <<>>)))

\* ------------------------------------------------------------ the panic of to_time

\* Time::new(hour as i8, minute as i8, 0, 0) is Ok from 00:00 to 23:59
TimeNew(tod) == tod.hour \in 0..23 /\ tod.minute \in 0..59

\* the unwrap of to_time on the window of an IntervalRepeat succeeds
WindowUnwraps(expr) ==
  expr.kind = "IntervalRepeat" => TimeNew(expr.from) /\ TimeNew(expr.to)

\* matches comes to the arm of an IntervalRepeat and past its day filter
ReachesWindow(schedule, datetime) ==
  LET Until(until_date, date) == until_date.some /\ date <= until_date.val
      On(date) ==
        /\ matches_during(date, schedule.during)
        /\ ~is_excepted(date, schedule.except)
        /\ schedule.until.some => Until(resolve_until(schedule.until.val, date), date)
        /\ schedule.expr.day_filter.some
             => matches_day_filter(date, schedule.expr.day_filter.val)
      In(tz) == tz.some /\ On(LocalDate(tz.val, datetime))
  IN schedule.expr.kind = "IntervalRepeat" /\ In(resolve_tz(schedule.timezone))

\* next_from, previous_from and matches with the panic of to_time: the first
\* two convert the window on the first iteration of their retry loop, once
\* the zone and the until date are resolved
Evaluated(op, schedule, at) ==
  LET Unwrapped(r) == IF r # Err /\ ~WindowUnwraps(schedule.expr) THEN Panic ELSE r
  IN CASE op = "next_from" -> Unwrapped(next_from(schedule, at))
       [] op = "previous_from" -> Unwrapped(previous_from(schedule, at))
       [] op = "matches" ->
            IF ReachesWindow(schedule, at) /\ ~WindowUnwraps(schedule.expr) THEN Panic
            ELSE matches(schedule, at)

\* ------------------------------------------------------------ bounds and inputs

\* repeat intervals run from 1 to MaxInterval
MaxInterval == 2

\* query instants lie on NowDays consecutive days from BaseDate
NowDays == 3

\* Friday 2026-10-30: the window holds Saturday the 31st and Sunday the 1st,
\* the day of the New York fall-back
BaseDate == DaysFromCivil(2026, 10, 30)

\* Saturday 2026-03-07, the eve of the New York spring-forward
GapEve == DaysFromCivil(2026, 3, 7)

\* seconds of the (UTC) day of the query instants: 00:00:00, 06:30:00 (01:30
\* in New York, after the fall-back), 09:00:30 and 23:59:00
NowSeconds == {0, 6 * 3600 + 30 * 60, 9 * 3600 + 30, 23 * 3600 + 59 * 60}

Nows ==
  {[d |-> BaseDate + k, s |-> sec] : k \in 0..(NowDays - 1), sec \in NowSeconds}
    \cup {[d |-> GapEve + k, s |-> 6 * 3600 + 30 * 60] : k \in 0..1}

\* a time list with the zone it is read in: the New York list is out of order
\* and lies in the hours the clock changes touch
Clocks ==
  { [times |-> <<TimeOfDay(9, 0)>>, zone |-> Some("UTC")],
    [times |-> <<TimeOfDay(23, 59)>>, zone |-> Some("UTC")],
    [times |-> <<TimeOfDay(2, 30), TimeOfDay(1, 45)>>, zone |-> Some(NewYork)] }

Zones == {Some("UTC"), Some(NewYork)}

Intervals == 1..MaxInterval

MonthTargets ==
  { DaysTarget(<<Single(31), Range(1, 2)>>), LastDay, LastWeekday,
    NearestWeekday(1, None), NearestWeekday(31, None),
    NearestWeekday(31, Some("Next")), NearestWeekday(1, Some("Previous")) }

YearTargets ==
  { YearDate(11, 1), YearOrdinalWeekday("First", 7, 11), YearDayOfMonth(29, 2),
    YearLastWeekday(10) }

Timed(expr, zone) == [expr |-> expr, zone |-> zone]

\* the repeating expressions the parser can produce, over the bounded parameters
RepeatExprs ==
  {Timed(DayRepeat(1, f, c.times), c.zone) :
      f \in {Every, WeekdayFilter, Days(<<6, 1>>)}, c \in Clocks}
    \cup {Timed(DayRepeat(n, Every, c.times), c.zone) : n \in Intervals \ {1}, c \in Clocks}
    \cup {Timed(IntervalRepeat(45, "Minutes", TimeOfDay(9, 0), TimeOfDay(17, 0), None), z) :
            z \in Zones}
    \cup {Timed(IntervalRepeat(n, "Hours", TimeOfDay(0, 30), TimeOfDay(23, 59),
                               Some(WeekendFilter)), z) : n \in Intervals, z \in Zones}
    \cup {Timed(WeekRepeat(n, <<6, 1>>, c.times), c.zone) : n \in Intervals, c \in Clocks}
    \cup {Timed(MonthRepeat(n, g, c.times), c.zone) :
            n \in Intervals, g \in MonthTargets, c \in Clocks}
    \cup {Timed(OrdinalRepeat(n, o, 6, c.times), c.zone) :
            n \in Intervals, o \in {"First", "Fifth", "Last"}, c \in Clocks}

\* the expressions that name one day of the year
DateExprs ==
  {Timed(SingleDate(ds, c.times), c.zone) :
      ds \in {Iso(BaseDate + 3), Named(11, 1), Named(2, 29)}, c \in Clocks}
    \cup {Timed(YearRepeat(n, g, c.times), c.zone) :
            n \in Intervals, g \in YearTargets, c \in Clocks}

NoModifiers == [except |-> <<>>, until |-> None, anchor |-> None, during |-> <<>>]

\* the trailing clauses: except, until, starting (the anchor) and during
Modifiers ==
  { NoModifiers,
    [NoModifiers EXCEPT !.until = Some(Iso(BaseDate + 2))],
    [NoModifiers EXCEPT !.until = Some(Named(10, 31))],
    [NoModifiers EXCEPT !.except = <<Named(11, 1), Iso(BaseDate + 1)>>],
    [NoModifiers EXCEPT !.during = <<11>>],
    [NoModifiers EXCEPT !.during = <<10, 3>>],
    [NoModifiers EXCEPT !.anchor = Some(BaseDate - 1)],
    [NoModifiers EXCEPT !.anchor = Some(BaseDate + 6)],
    [except |-> <<Named(11, 2)>>, until |-> Some(Iso(BaseDate + 5)),
     anchor |-> None, during |-> <<11>>] }

\* the clauses put on the one-day expressions: none that rules out every year
DateModifiers ==
  { NoModifiers,
    [NoModifiers EXCEPT !.until = Some(Named(10, 31))],
    [NoModifiers EXCEPT !.except = <<Iso(BaseDate + 3)>>],
    [NoModifiers EXCEPT !.during = <<2, 11, 10>>],
    [NoModifiers EXCEPT !.anchor = Some(BaseDate + 6)] }

WithModifiers(e, m) ==
  [expr |-> e.expr, timezone |-> e.zone, except |-> m.except, until |-> m.until,
   anchor |-> m.anchor, during |-> m.during]

EveryDayAtNine == DayRepeat(1, Every, <<TimeOfDay(9, 0)>>)

\* `every day at 09:00 in Mars/Phobos`: the zone is not in the database
Unzoned == [ScheduleNew(EveryDayAtNine) EXCEPT !.timezone = Some(UnknownZone)]

\* `on feb 14 at 09:00 during mar in UTC`: no day passes the filter
Contradiction ==
  WithModifiers(Timed(SingleDate(Named(2, 14), <<TimeOfDay(9, 0)>>), Some("UTC")),
                [NoModifiers EXCEPT !.during = <<3>>])

\* `every 2 months on the 1st at 09:00 in UTC starting 2031-01-01`: the first
\* aligned month lies more than four years after the query instants
FarAnchor ==
  WithModifiers(Timed(MonthRepeat(2, DaysTarget(<<Single(1)>>), <<TimeOfDay(9, 0)>>),
                      Some("UTC")),
                [NoModifiers EXCEPT !.anchor = Some(DaysFromCivil(2031, 1, 1))])

\* `every 1 hour from 00:45 to 23:59 in America/New_York`: a slot in each
\* hour, also in the hour the fall-back repeats
HourlyAtQuarterTo ==
  WithModifiers(Timed(IntervalRepeat(1, "Hours", TimeOfDay(0, 45), TimeOfDay(23, 59), None),
                      Some(NewYork)),
                NoModifiers)

\* DayRepeat { interval: 2, days: Weekday, times: [09:00] } in UTC: an interval
\* together with a day filter, which the AST allows and the parser never builds
EveryOtherWeekday ==
  WithModifiers(Timed(DayRepeat(2, WeekdayFilter, <<TimeOfDay(9, 0)>>), Some("UTC")),
                NoModifiers)

\* `every month on the 31st at 09:00 in UTC`
OnThe31st ==
  WithModifiers(Timed(MonthRepeat(1, DaysTarget(<<Single(31)>>), <<TimeOfDay(9, 0)>>),
                      Some("UTC")),
                NoModifiers)

\* the schedules queried: the expressions under the modifier sets, a schedule
\* with no zone, one with a zone the database does not know, one that no
\* day satisfies, one anchored years ahead, one with a slot every hour, one
\* with an interval and a day filter, and one on the 31st only
Schedules ==
  {WithModifiers(e, m) : e \in RepeatExprs, m \in Modifiers}
    \cup {WithModifiers(e, m) : e \in DateExprs, m \in DateModifiers}
    \cup {ScheduleNew(EveryDayAtNine), Unzoned, Contradiction, FarAnchor,
          HourlyAtQuarterTo, EveryOtherWeekday, OnThe31st}

\* the schedules iterated over: plain, with an until date (ISO and named),
\* with occurrences one minute apart, in the zone with clock changes, on one
\* date already past, and with an unknown zone
IterSchedules ==
  { WithModifiers(Timed(DayRepeat(n, Every, <<TimeOfDay(9, 0)>>), Some("UTC")), m) :
      n \in Intervals,
      m \in { NoModifiers,
              [NoModifiers EXCEPT !.until = Some(Iso(BaseDate + 2))],
              [NoModifiers EXCEPT !.until = Some(Named(10, 31))],
              [NoModifiers EXCEPT !.except = <<Iso(BaseDate + 1)>>] } }
    \cup { WithModifiers(Timed(DayRepeat(1, Every, <<TimeOfDay(23, 59)>>), Some("UTC")),
                         [NoModifiers EXCEPT !.until = Some(Named(10, 31))]),
           WithModifiers(Timed(DayRepeat(1, Every, <<TimeOfDay(9, 1), TimeOfDay(9, 0)>>),
                               Some("UTC")), NoModifiers),
           WithModifiers(Timed(IntervalRepeat(45, "Minutes", TimeOfDay(9, 0),
                                              TimeOfDay(17, 0), None), Some("UTC")),
                         NoModifiers),
           WithModifiers(Timed(WeekRepeat(1, <<6, 1>>, <<TimeOfDay(2, 30), TimeOfDay(1, 45)>>),
                               Some(NewYork)), NoModifiers),
           WithModifiers(Timed(SingleDate(Iso(BaseDate - 1), <<TimeOfDay(9, 0)>>),
                               Some("UTC")), NoModifiers),
           Unzoned }

\* the end bounds of between: 09:00 and 09:01 on the second day, noon on the third
Tos ==
  { [d |-> BaseDate + 1, s |-> 9 * 3600],
    [d |-> BaseDate + 1, s |-> 9 * 3600 + 60],
    [d |-> BaseDate + NowDays - 1, s |-> 12 * 3600] }

\* an iterator is pulled at most MaxPulls times
MaxPulls == 4

\* minimality is probed on the ProbeMinutes whole minutes that follow now
ProbeMinutes == 90

\* ------------------------------------------------------------ the texts parsed

\* the pieces of a text with one space between them
Line(pieces) == Joined(pieces, <<" ">>)

\* a piece followed by a comma
Comma(piece) == piece \o <<",">>

Nine == <<"9", ":", "0", "0">>

\* expressions of every form, with long and short spellings, capitals,
\* a repeat interval, day numbers off the calendar, times off the clock and
\* characters of two and three bytes after digits and letters
ExprTexts ==
  { Line(<<Bytes.every, Bytes.day, Bytes.at, Nine>>),
    Line(<<<<"E", "v", "e", "r", "y">>, Bytes.weekdays, <<"A", "T">>,
           Comma(<<"0", "9", ":", "0", "0">>), <<"1", "7", ":", "3", "0">>>>),
    Line(<<Bytes.every, Comma(Bytes.mon), Bytes.friday, Bytes.at, Nine>>),
    Line(<<Bytes.every, <<"2">>, Bytes.day, Bytes.at, Nine>>),
    Line(<<Bytes.every, <<"3", "0">>, Bytes.mins, Bytes.from, Nine, Bytes.to,
           <<"1", "7", ":", "0", "0">>>>),
    Line(<<Bytes.every, <<"1">>, Bytes.hr, Bytes.from, <<"0", ":", "0", "0">>, Bytes.to,
           <<"2", "3", ":", "5", "9">>, Bytes.on, Bytes.weekend>>),
    Line(<<Bytes.every, <<"2">>, Bytes.week, Bytes.on, Comma(Bytes.sat), Bytes.monday,
           Bytes.at, Nine>>),
    Line(<<Bytes.every, <<"0">>, Bytes.weeks, Bytes.on, Bytes.monday, Bytes.at, Nine>>),
    Line(<<Bytes.every, Bytes.month, Bytes.on, Bytes.the, <<"1", "s", "t">>, Bytes.to,
           Comma(<<"1", "5", "t", "h">>), <<"3", "1", "s", "t">>, Bytes.at, Nine>>),
    Line(<<Bytes.every, <<"2">>, Bytes.month, Bytes.on, Bytes.the, Bytes.last,
           Bytes.weekday, Bytes.at, Nine>>),
    Line(<<Bytes.every, Bytes.month, Bytes.on, Bytes.the, Bytes.last, Bytes.day,
           Bytes.at, Nine>>),
    Line(<<Bytes.every, Bytes.month, Bytes.on, Bytes.the, <<"3", "2", "n", "d">>,
           Bytes.at, Nine>>),
    Line(<<Bytes.every, Bytes.month, Bytes.on, Bytes.the, <<"0", "t", "h">>,
           Bytes.at, Nine>>),
    Line(<<Bytes.every, Bytes.month, Bytes.on, Bytes.the, <<"1", "5", "t", "h">>,
           Bytes.to, <<"1", "s", "t">>, Bytes.at, Nine>>),
    Line(<<Bytes.first, Bytes.monday, Bytes.of, Bytes.every, Bytes.month, Bytes.at, Nine>>),
    Line(<<Bytes.last, Bytes.fri, Bytes.of, Bytes.every, <<"2">>, Bytes.month,
           Bytes.at, Nine>>),
    Line(<<Bytes.on, Bytes.feb, <<"1", "4">>, Bytes.at, Nine>>),
    Line(<<Bytes.on, Bytes.feb, <<"3", "0">>, Bytes.at, Nine>>),
    Line(<<Bytes.on, Bytes.dec, <<"3", "0", "0">>, Bytes.at, Nine>>),
    Line(<<Bytes.on, <<"2", "0", "2", "6", "-", "0", "3", "-", "1", "5">>, Bytes.at,
           <<"1", "4", ":", "3", "0">>>>),
    Line(<<Bytes.on, <<"2", "0", "2", "6", "-", "0", "2", "-", "3", "0">>, Bytes.at, Nine>>),
    Line(<<Bytes.every, Bytes.year, Bytes.on, Bytes.december, <<"2", "5">>, Bytes.at,
           <<"0", "0", ":", "0", "0">>>>),
    Line(<<Bytes.every, Bytes.year, Bytes.on, Bytes.jun, <<"3", "1", "s", "t">>,
           Bytes.at, Nine>>),
    Line(<<Bytes.every, <<"2">>, Bytes.year, Bytes.on, Bytes.the, Bytes.first,
           Bytes.monday, Bytes.of, Bytes.march, Bytes.at, Nine>>),
    Line(<<Bytes.every, Bytes.year, Bytes.on, Bytes.the, Bytes.last, Bytes.sun,
           Bytes.of, Bytes.oct, Bytes.at, Nine>>),
    Line(<<Bytes.every, Bytes.year, Bytes.on, Bytes.the, <<"4", "0", "t", "h">>,
           Bytes.of, Bytes.march, Bytes.at, Nine>>),
    Line(<<Bytes.every, Bytes.year, Bytes.on, Bytes.the, Bytes.last, Bytes.weekday,
           Bytes.of, Bytes.december, Bytes.at, Nine>>),
    Line(<<Bytes.every, Bytes.day, Bytes.at, <<"2", "5", ":", "0", "0">>>>),
    Line(<<Bytes.every, Bytes.day, Bytes.at, <<"9", ":", "6", "0">>>>),
    Line(<<Bytes.every, Bytes.day, Bytes.at, <<"9", ":", "5">>>>),
    Line(<<Bytes.every, <<"2", ":", "5">>, Bytes.weeks, Bytes.on, Bytes.monday,
           Bytes.at, Nine>>),
    Line(<<Bytes.every, <<"4", "2", "9", "4", "9", "6", "7", "2", "9", "6">>,
           Bytes.weeks, Bytes.on, Bytes.monday, Bytes.at, Nine>>),
    Line(<<Bytes.every, <<"5", "xC3", "xA9">>>>),
    Line(<<Bytes.every, <<"5", "xE2", "x82", "xAC">>>>),
    Line(<<Bytes.every, <<"5", "a", "xC3", "xA9">>>>),
    Line(<<Bytes.every, <<"d", "a", "y", "xE2", "x82", "xAC">>>>),
    <<"5">>,
    <<" ">> }

\* the trailing clauses: none, each alone, a named day off the calendar, all
\* together, and two in the wrong order
ClauseTexts ==
  { <<>>,
    Line(<<<<>>, Bytes.except, Bytes.dec, Comma(<<"2", "5">>),
           <<"2", "0", "2", "7", "-", "0", "1", "-", "0", "1">>>>),
    Line(<<<<>>, Bytes.except, Bytes.feb, <<"3", "0", "t", "h">>>>),
    Line(<<<<>>, Bytes.until, <<"2", "0", "2", "7", "-", "1", "2", "-", "3", "1">>>>),
    Line(<<<<>>, Bytes.until, Bytes.nov, <<"3", "1">>>>),
    Line(<<<<>>, Bytes.starting, <<"2", "0", "2", "6", "-", "0", "1", "-", "0", "5">>>>),
    Line(<<<<>>, Bytes.during, Comma(Bytes.jan), Bytes.june>>),
    Line(<<<<>>, Bytes.in, <<"U", "T", "C">>>>),
    Line(<<<<>>, Bytes.in, <<"xE2", "x82", "xAC">>>>),
    Line(<<<<>>, Bytes.except, Bytes.jan, <<"1">>, Bytes.until, Bytes.dec, <<"3", "1">>,
           Bytes.starting, <<"2", "0", "2", "6", "-", "0", "1", "-", "0", "5">>,
           Bytes.during, Bytes.may, Bytes.in, <<"U", "T", "C">>>>),
    Line(<<<<>>, Bytes.during, Bytes.may, Bytes.until, Bytes.dec, <<"3", "1">>>>) }

Texts == {e \o c : e \in ExprTexts, c \in ClauseTexts}

\* parse and display alternate until the text was parsed MaxParses times
MaxParses == 2

\* ------------------------------------------------------------ the cron inputs

\* the schedules converted to cron: every day filter (the lists of Monday to
\* Friday and of Saturday and Sunday among them), day-of-month lists and
\* ranges, intervals that divide the hour and that do not, whole and partial
\* windows, the forms cron has no field for, and each trailing clause
CronExprs ==
  {DayRepeat(n, f, ts) :
      n \in Intervals,
      f \in {Every, WeekdayFilter, WeekendFilter, Days(<<1, 2, 3, 4, 5>>), Days(<<6, 7>>),
             Days(<<5, 1>>), Days(<<7>>)},
      ts \in {<<TimeOfDay(9, 0)>>, <<TimeOfDay(9, 0), TimeOfDay(17, 30)>>}}
    \cup {IntervalRepeat(n, "Minutes", TimeOfDay(w[1], 0), TimeOfDay(w[2], w[3]), f) :
            n \in {1, 7, 15, 60, 90}, w \in {<<0, 23, 59>>, <<9, 17, 0>>},
            f \in {None, Some(WeekdayFilter)}}
    \cup {IntervalRepeat(n, "Hours", TimeOfDay(w[1], 0), TimeOfDay(w[2], w[3]), f) :
            n \in {1, 5}, w \in {<<0, 23, 59>>, <<9, 17, 0>>},
            f \in {None, Some(WeekdayFilter)}}
    \cup {MonthRepeat(n, g, ts) :
            n \in Intervals,
            g \in {DaysTarget(<<Single(1)>>), DaysTarget(<<Range(1, 3), Single(15)>>),
                   DaysTarget(<<Single(31), Single(1)>>), LastDay, LastWeekday},
            ts \in {<<TimeOfDay(9, 0)>>, <<TimeOfDay(9, 0), TimeOfDay(17, 30)>>}}
    \cup {WeekRepeat(1, <<1>>, <<TimeOfDay(9, 0)>>),
          OrdinalRepeat(1, "First", 1, <<TimeOfDay(9, 0)>>),
          SingleDate(Named(2, 14), <<TimeOfDay(9, 0)>>),
          YearRepeat(1, YearDate(12, 25), <<TimeOfDay(9, 0)>>)}

CronSchedules ==
  {WithModifiers(Timed(e, z), m) :
      e \in CronExprs, z \in {None, Some("UTC")},
      m \in {NoModifiers,
             [NoModifiers EXCEPT !.except = <<Named(12, 25)>>],
             [NoModifiers EXCEPT !.until = Some(Iso(BaseDate))],
             [NoModifiers EXCEPT !.during = <<1>>],
             [NoModifiers EXCEPT !.anchor = Some(BaseDate)]}}

\* five cron fields
Cron(minute, hour, dom, month, dow) == Line(<<minute, hour, dom, month, dow>>)

\* cron expressions of every accepted form, and malformed ones
PlainCronTexts ==
  { Cron(<<"0">>, <<"9">>, <<"*">>, <<"*">>, <<"*">>),
    Cron(<<"*", "/", "1", "5">>, <<"2", "4">>, <<"*">>, <<"*">>, <<"*">>),
    Cron(<<"3", "0">>, <<"1", "7">>, <<"*">>, <<"*">>, <<"1", "-", "5">>),
    Cron(<<"0">>, <<"9">>, <<"*">>, <<"*">>, <<"M", "O", "N", ",", "w", "e", "d">>),
    Cron(<<"0">>, <<"9">>, <<"?">>, <<"*">>, <<"0", ",", "6">>),
    Cron(<<"0">>, <<"9">>, <<"*">>, <<"*">>, <<"1", ",", "2", ",", "3", ",", "4", ",", "5">>),
    Cron(<<"0">>, <<"9">>, <<"*">>, <<"*">>, <<"1", "-", "7", "/", "2">>),
    Cron(<<"0">>, <<"9">>, <<"1", ",", "1", "5">>, <<"*">>, <<"*">>),
    Cron(<<"0">>, <<"9">>, <<"1", "-", "5">>, <<"*">>, <<"?">>),
    Cron(<<"0">>, <<"9">>, <<"*", "/", "1", "0">>, <<"*">>, <<"*">>),
    Cron(<<"0">>, <<"9">>, <<"L">>, <<"*">>, <<"*">>),
    Cron(<<"0">>, <<"9">>, <<"L", "W">>, <<"*">>, <<"*">>),
    Cron(<<"0">>, <<"9">>, <<"1", "5", "W">>, <<"*">>, <<"*">>),
    Cron(<<"0">>, <<"9">>, <<"*">>, <<"*">>, <<"1", "#", "2">>),
    Cron(<<"0">>, <<"9">>, <<"*">>, <<"*">>, <<"1", "#", "6">>),
    Cron(<<"0">>, <<"9">>, <<"*">>, <<"*">>, <<"5", "L">>),
    Cron(<<"*", "/", "1", "5">>, <<"*">>, <<"*">>, <<"*">>, <<"*">>),
    Cron(<<"*", "/", "1", "5">>, <<"9", "-", "1", "7">>, <<"*">>, <<"*">>, <<"1", "-", "5">>),
    Cron(<<"0", "-", "3", "0", "/", "1", "0">>, <<"9">>, <<"*">>, <<"*">>, <<"*">>),
    Cron(<<"0">>, <<"*", "/", "2">>, <<"*">>, <<"*">>, <<"*">>),
    Cron(<<"0">>, <<"9", "-", "1", "7", "/", "2">>, <<"*">>, <<"*">>, <<"*">>),
    Cron(<<"0">>, <<"9">>, <<"*">>, <<"j", "a", "n", "-", "M", "A", "R">>, <<"*">>),
    Cron(<<"0">>, <<"9">>, <<"*">>, <<"1", ",", "6">>, <<"*">>),
    Cron(<<"0">>, <<"9">>, <<"*">>, <<"*", "/", "3">>, <<"*">>),
    <<"@", "d", "a", "i", "l", "y">>, <<"@", "h", "o", "u", "r", "l", "y">>,
    <<"@", "Y", "e", "a", "r", "l", "y">>, <<"@", "w", "e", "e", "k", "l", "y">>,
    <<"@", "m", "o", "n", "t", "h", "l", "y">>, <<"@", "r", "e", "b", "o", "o", "t">>,
    <<>>,
    Line(<<<<"0">>, <<"9">>, <<"*">>, <<"*">>>>),
    <<" ">> \o Cron(<<"0">>, <<" ", "9">>, <<"*">>, <<"*">>, <<"*", " ">>),
    Cron(<<"6", "0">>, <<"9">>, <<"*">>, <<"*">>, <<"*">>),
    Cron(<<"0">>, <<"2", "4">>, <<"*">>, <<"*">>, <<"*">>),
    Cron(<<"0">>, <<"9">>, <<"3", "2">>, <<"*">>, <<"*">>),
    Cron(<<"0">>, <<"9">>, <<"*">>, <<"1", "3">>, <<"*">>),
    Cron(<<"0">>, <<"9">>, <<"*">>, <<"*">>, <<"8">>) }

\* cron expressions with a range that runs backwards or a step of 0, in
\* each of the five fields, with and without a step
BackwardCronTexts ==
  { Cron(<<"3", "0", "-", "1", "0", "/", "5">>, <<"*">>, <<"*">>, <<"*">>, <<"*">>),
    Cron(<<"3", "0", "-", "1", "0">>, <<"9">>, <<"*">>, <<"*">>, <<"*">>),
    Cron(<<"*", "/", "0">>, <<"*">>, <<"*">>, <<"*">>, <<"*">>),
    Cron(<<"0">>, <<"1", "7", "-", "9", "/", "2">>, <<"*">>, <<"*">>, <<"*">>),
    Cron(<<"0">>, <<"1", "7", "-", "9">>, <<"*">>, <<"*">>, <<"*">>),
    Cron(<<"0">>, <<"*", "/", "0">>, <<"*">>, <<"*">>, <<"*">>),
    Cron(<<"*", "/", "1", "5">>, <<"1", "7", "-", "9">>, <<"*">>, <<"*">>, <<"*">>),
    Cron(<<"0">>, <<"9">>, <<"5", "-", "1">>, <<"*">>, <<"*">>),
    Cron(<<"0">>, <<"9">>, <<"5", "-", "1", "/", "2">>, <<"*">>, <<"*">>),
    Cron(<<"0">>, <<"9">>, <<"*", "/", "0">>, <<"*">>, <<"*">>),
    Cron(<<"0">>, <<"9">>, <<"*">>, <<"1", "0", "-", "3">>, <<"*">>),
    Cron(<<"0">>, <<"9">>, <<"*">>, <<"1", "0", "-", "3", "/", "2">>, <<"*">>),
    Cron(<<"0">>, <<"9">>, <<"*">>, <<"*", "/", "0">>, <<"*">>),
    Cron(<<"0">>, <<"9">>, <<"*">>, <<"*">>, <<"5", "-", "1">>),
    Cron(<<"0">>, <<"9">>, <<"*">>, <<"*">>, <<"5", "-", "1", "/", "2">>),
    Cron(<<"0">>, <<"9">>, <<"*">>, <<"*">>, <<"*", "/", "0">>) }

CronTexts == PlainCronTexts \cup BackwardCronTexts

\* to_cron is called at most MaxCrons times on the way there and back
MaxCrons == 2

\* ------------------------------------------------------------ the state machine

VARIABLES
  schedule,   \* the Schedule under evaluation
  now,        \* the instant next_from is asked about; the `from` of an iterator
  to,         \* the end bound of between
  result,     \* what next_from returned, or Idle before the call
  matched,    \* what matches returned on the result, or Idle before the call
  api,        \* the iterator in use: "new" until the first call
  current,    \* Occurrences.current, the cursor
  items,      \* the items the iterator has returned so far
  pulls,      \* the number of calls of Iterator::next, or of parse
  input       \* the text given to Schedule::parse

vars == <<schedule, now, to, result, matched, api, current, items, pulls, input>>

Idle == [kind |-> "Idle"]

\* ---- the query API: next_from, then matches on what it returned

Init ==
  /\ schedule \in Schedules
  /\ now \in Nows
  /\ to = now
  /\ result = Idle
  /\ matched = Idle
  /\ api = "query"
  /\ current = now
  /\ items = <<>>
  /\ pulls = 0
  /\ input = <<>>

\* Schedule::next_from(now)
NextFrom ==
  /\ result = Idle
  /\ result' = next_from(schedule, now)
  /\ UNCHANGED <<schedule, now, to, matched, api, current, items, pulls, input>>

\* Schedule::matches on the instant next_from returned
Matches ==
  /\ result.kind = "Some"
  /\ matched = Idle
  /\ matched' = matches(schedule, result.val)
  /\ UNCHANGED <<schedule, now, to, result, api, current, items, pulls, input>>

Next == NextFrom \/ Matches

Spec == Init /\ [][Next]_vars

\* ---- the iterators: occurrences(from), between(from, to), next_n_from(now, n)

InitIter ==
  /\ schedule \in IterSchedules
  /\ now \in Nows
  /\ to \in Tos
  /\ result = Idle
  /\ matched = Idle
  /\ api = "new"
  /\ current = now
  /\ items = <<>>
  /\ pulls = 0
  /\ input = <<>>

\* the caller's view of one pull: the item is recorded, the cursor moves
Pulled(r) ==
  /\ current' = r.cursor
  /\ items' = Append(items, r.item)

\* one call of Occurrences::next on the iterator of occurrences(now)
OccurrencesPull ==
  /\ api \in {"new", "occurrences"}
  /\ pulls < MaxPulls
  /\ Pulled(OccurrencesNext(schedule, current))
  /\ api' = "occurrences"
  /\ pulls' = pulls + 1
  /\ UNCHANGED <<schedule, now, to, result, matched, input>>

\* one call of BoundedOccurrences::next on the iterator of between(now, to)
BetweenPull ==
  /\ api \in {"new", "between"}
  /\ pulls < MaxPulls
  /\ Pulled(BoundedOccurrencesNext(schedule, current, to))
  /\ api' = "between"
  /\ pulls' = pulls + 1
  /\ UNCHANGED <<schedule, now, to, result, matched, input>>

\* Schedule::next_n_from(now, n): the whole vector at once
NextNFrom ==
  /\ api = "new"
  /\ \E n \in 1..MaxPulls :
       LET Returns(r) == items' = r.items /\ current' = r.cursor
       IN Returns(next_n_from(schedule, now, n)) /\ pulls' = n
  /\ api' = "next_n_from"
  /\ UNCHANGED <<schedule, now, to, result, matched, input>>

NextIter == OccurrencesPull \/ BetweenPull \/ NextNFrom

SpecIter == InitIter /\ [][NextIter]_vars

\* ---- the text API: parse, display, and parse and display again

InitText ==
  /\ input \in Texts
  /\ schedule = ScheduleNew(EveryDayAtNine)
  /\ now = [d |-> BaseDate, s |-> 0]
  /\ to = now
  /\ result = Idle
  /\ matched = Idle
  /\ api = "text"
  /\ current = now
  /\ items = <<>>
  /\ pulls = 0

\* Schedule::parse on the input, then on the text display wrote last
Parse ==
  /\ api = "text"
  /\ result = Idle
  /\ pulls < MaxParses
  /\ result' = parse(IF items = <<>> THEN input ELSE items[Len(items)])
  /\ pulls' = pulls + 1
  /\ UNCHANGED <<schedule, now, to, matched, api, current, items, input>>

\* Schedule::to_string on the schedule parse returned
Display ==
  /\ api = "text"
  /\ result.kind = "Ok"
  /\ items' = Append(items, display(result.schedule))
  /\ result' = Idle
  /\ UNCHANGED <<schedule, now, to, matched, api, current, pulls, input>>

NextText == Parse \/ Display

SpecText == InitText /\ [][NextText]_vars

\* ---- the cron API: to_cron, from_cron on its text, and to_cron again;
\* ---- and from_cron on a cron expression

InitCron ==
  /\ \/ api = "cron" /\ schedule \in CronSchedules /\ input = <<>>
     \/ api = "from_cron" /\ schedule = ScheduleNew(EveryDayAtNine) /\ input \in CronTexts
  /\ now = [d |-> BaseDate, s |-> 0]
  /\ to = now
  /\ result = Idle
  /\ matched = Idle
  /\ current = now
  /\ items = <<>>
  /\ pulls = 0

\* Schedule::to_cron on the schedule, then on the one from_cron returned
ToCron ==
  /\ api = "cron"
  /\ pulls < MaxCrons
  /\ IF items = <<>> THEN result = Idle ELSE result.kind = "Ok"
  /\ items' = Append(items, to_cron(IF items = <<>> THEN schedule ELSE result.schedule))
  /\ result' = Idle
  /\ pulls' = pulls + 1
  /\ UNCHANGED <<schedule, now, to, matched, api, current, input>>

\* Schedule::from_cron on the text to_cron wrote last, or on the input
FromCron ==
  /\ result = Idle
  /\ IF api = "cron" THEN items # <<>> /\ items[Len(items)].kind = "Ok"
     ELSE api = "from_cron"
  /\ result' = from_cron(IF api = "cron" THEN items[Len(items)].val ELSE input)
  /\ UNCHANGED <<schedule, now, to, matched, api, current, items, pulls, input>>

\* next_from, previous_from or matches on the schedule from_cron returned
Evaluate ==
  /\ result.kind = "Ok"
  /\ matched = Idle
  /\ \E op \in {"next_from", "previous_from", "matches"} :
       matched' = Evaluated(op, result.schedule, now)
  /\ UNCHANGED <<schedule, now, to, result, api, current, items, pulls, input>>

NextCron == ToCron \/ FromCron \/ Evaluate

SpecCron == InitCron /\ [][NextCron]_vars

\* ---- previous_from, and next_from followed by previous_from a little later

\* a schedule with no except, during or until clause
Unfiltered(s) == s.except = <<>> /\ s.during = <<>> /\ ~s.until.some

InitPrev ==
  /\ \/ api = "previous" /\ schedule \in Schedules
     \/ api = "symmetry" /\ schedule \in {s \in Schedules : Unfiltered(s)}
  /\ now \in Nows
  /\ to = now
  /\ result = Idle
  /\ matched = Idle
  /\ current = now
  /\ items = <<>>
  /\ pulls = 0
  /\ input = <<>>

\* Schedule::previous_from(now)
PreviousFrom ==
  /\ api = "previous"
  /\ result = Idle
  /\ result' = previous_from(schedule, now)
  /\ UNCHANGED <<schedule, now, to, matched, api, current, items, pulls, input>>

\* Schedule::next_from(now), to be followed by previous_from
NextBefore ==
  /\ api = "symmetry"
  /\ result = Idle
  /\ result' = next_from(schedule, now)
  /\ UNCHANGED <<schedule, now, to, matched, api, current, items, pulls, input>>

\* the instants one minute, a minute and a second, three quarters of an hour
\* and a day after u that are not later than the occurrence that follows u,
\* and that occurrence itself
Afters(s, u) ==
  LET Upto(follow) ==
        {v \in {AddSeconds(u, e) : e \in {60, 61, 45 * 60, SecondsPerDay}}
                 \cup (IF follow.kind = "Some" THEN {follow.val} ELSE {}) :
           follow.kind = "Some" => ZLe(v, follow.val)}
  IN Upto(next_from(s, u))

\* Schedule::previous_from on an instant after the one next_from returned
PreviousAfter ==
  /\ api = "symmetry"
  /\ result.kind = "Some"
  /\ matched = Idle
  /\ \E at \in Afters(schedule, result.val) :
       /\ current' = at
       /\ matched' = previous_from(schedule, at)
  /\ UNCHANGED <<schedule, now, to, result, api, items, pulls, input>>

NextPrev == PreviousFrom \/ NextBefore \/ PreviousAfter

SpecPrev == InitPrev /\ [][NextPrev]_vars

\* ------------------------------------------------------------ properties

\* the zone the schedule is evaluated in (UTC when it names none)
ZoneOf(s) == resolve_tz(s.timezone).val

\* the civil date of an instant in the schedule's zone
DateIn(s, z) == LocalDate(ZoneOf(s), z)

\* what the variant generator proposes first, before any filter
FirstCandidate == next_expr(schedule.expr, ZoneOf(schedule), schedule.anchor, now,
                            schedule.during)

\* a date named by an exception: the month and day of a Named one in any
\* year, the exact date of an Iso one
OnExceptedDate(s, date) ==
  \E i \in 1..Len(s.except) :
    \/ /\ s.except[i].kind = "Named"
       /\ MonthOf(date) = s.except[i].month
       /\ DayOf(date) = s.except[i].day
    \/ /\ s.except[i].kind = "Iso"
       /\ date = s.except[i].date

InDuring(s, date) == \E i \in 1..Len(s.during) : s.during[i] = MonthOf(date)

\* the instants among the items an iterator returned
Emitted ==
  LET Instants(somes) == [i \in 1..Len(somes) |-> somes[i].val]
  IN Instants(SelectSeq(items, LAMBDA x : x.kind = "Some"))

\* the until date as resolved at the instant the caller passed in
UntilAtStart == resolve_until(schedule.until.val, DateIn(schedule, now))

\* C1: whenever next_from(S, t) returns Some(u), u is strictly later than t,
\* for any seconds value of t and also when a filter made next_from retry.
C1_NextFromStrictlyLater ==
  result.kind = "Some" => ZLt(now, result.val)

\* C1 witness: t has a seconds value, the first candidate was rejected by the
\* except or during filter, and next_from returned an instant after the retry
C1_Witness ==
  /\ result.kind = "Some"
  /\ now.s % 60 # 0
  /\ FirstCandidate.some
  /\ \/ OnExceptedDate(schedule, DateIn(schedule, FirstCandidate.val))
     \/ /\ Len(schedule.during) > 0
        /\ ~InDuring(schedule, DateIn(schedule, FirstCandidate.val))
  /\ result.val # FirstCandidate.val

\* C2: if next_from(S, t) returns Some(u) then matches(S, u) returns true,
\* for every variant, interval, anchor, nearest-weekday direction and filter.
C2_NextFromMatches ==
  matched # Idle => matched = OkBool(TRUE)

\* the whole minutes after t, up to ProbeMinutes of them
Probes(t) ==
  {AddSeconds([d |-> t.d, s |-> t.s - (t.s % 60)], 60 * k) : k \in 1..ProbeMinutes}

\* C3: whenever next_from(S, now) returns Some(u), no instant v with
\* now < v < u satisfies S; checked for the whole minutes v that follow now.
C3_NextFromEarliest ==
  result.kind = "Some" =>
    \A v \in Probes(now) :
      ZLt(v, result.val) => matches(schedule, v) # OkBool(TRUE)

\* C4: the instants emitted by occurrences, between and next_n_from are in
\* strictly increasing order, so none is emitted twice.
C4_StrictlyIncreasing ==
  api \in {"occurrences", "between", "next_n_from"} =>
    \A i \in 1..(Len(Emitted) - 1) : ZLt(Emitted[i], Emitted[i + 1])

\* C4 witness: an iterator has emitted three instants
C4_Witness ==
  /\ api = "occurrences"
  /\ Len(Emitted) >= 3

\* C5: every instant t emitted by between(from, to) has from < t <= to; an
\* occurrence exactly at `to` is emitted; the sequence is empty when no
\* occurrence lies in the range.
C5_BetweenRange ==
  api = "between" =>
    /\ \A i \in 1..Len(Emitted) : ZLt(now, Emitted[i]) /\ ZLe(Emitted[i], to)
    /\ ( /\ items # <<>>
         /\ items[Len(items)].kind = "None"
         /\ ZLt(now, to)
         /\ matches(schedule, to) = OkBool(TRUE) )
       => \E i \in 1..Len(Emitted) : Emitted[i] = to

\* C6: between(from, to) yields finitely many items, also when evaluation
\* returns an error.  The iterator is a function of its cursor, so a pull that
\* yields an item and leaves the cursor where it was is repeated by every
\* later pull: each pull that yields an item must move the cursor.
C6_BetweenEnds ==
  [][(/\ api' = "between"
      /\ pulls' = pulls + 1
      /\ items'[Len(items')].kind # "None") => current' # current]_vars

\* C7: with an until clause, next_from and next_n_from never return an
\* instant whose civil date in the schedule's zone is after the until date.
C7_UntilBoundsNextN ==
  (api = "next_n_from" /\ schedule.until.some) =>
    \A i \in 1..Len(Emitted) : DateIn(schedule, Emitted[i]) <= UntilAtStart.val

\* C8: with an until clause, occurrences(from) ends: nothing is emitted after
\* the until date, and once a pull has returned end-of-sequence every later
\* pull does too.
C8_OccurrencesEndAtUntil ==
  (api = "occurrences" /\ schedule.until.some) =>
    /\ \A i \in 1..Len(items) :
         items[i].kind = "Some" => DateIn(schedule, items[i].val) <= UntilAtStart.val
    /\ \A i \in 1..Len(items), j \in 1..Len(items) :
         (i < j /\ items[i].kind = "None") => items[j].kind = "None"

\* C9: next_from never returns an instant whose civil date in the schedule's
\* zone is excepted: the month and day of a Named exception in any year, the
\* exact date of an Iso exception; an excepted candidate is skipped.
C9_NeverExcepted ==
  result.kind = "Some" => ~OnExceptedDate(schedule, DateIn(schedule, result.val))

\* C9 witness: the first candidate fell on an excepted date and next_from
\* returned an instant of a later day
C9_Witness ==
  /\ result.kind = "Some"
  /\ FirstCandidate.some
  /\ OnExceptedDate(schedule, DateIn(schedule, FirstCandidate.val))
  /\ DateIn(schedule, result.val) > DateIn(schedule, FirstCandidate.val)

\* C10: when the during list is non-empty, every instant returned by
\* next_from has a month of the list, in the schedule's zone; for a
\* directional nearest-weekday target it is the month of the returned date.
C10_ReturnedMonthInDuring ==
  (result.kind = "Some" /\ Len(schedule.during) > 0) =>
    InDuring(schedule, DateIn(schedule, result.val))

\* C11: formatting is a fixpoint of parse-then-display: the text display
\* writes for a parsed schedule is accepted by parse, and the schedule parsed
\* from it displays as the same text again
C11_DisplayIsFixpoint ==
  api = "text" =>
    /\ \A i \in 2..Len(items) : items[i] = items[i - 1]
    /\ (items # <<>> /\ result # Idle => result.kind = "Ok")

\* an input that is not in the form display writes was parsed, displayed,
\* parsed again and displayed again
C11_Witness ==
  api = "text" /\ Len(items) = 2 /\ items[1] # input /\ items[2] = items[1]

\* C12: for every schedule on which to_cron succeeds, from_cron accepts the
\* text and to_cron writes the same text for the schedule it returns -- for
\* every day filter, every day-of-month list and every expressible interval
C12_CronRoundTrip ==
  (api = "cron" /\ items # <<>> /\ items[1].kind = "Ok") =>
    /\ result # Idle => result.kind = "Ok"
    /\ Len(items) >= 2 => items[2] = items[1]

\* the whole minutes before t, down to ProbeMinutes before it
ProbesBefore(t) ==
  {v \in {AddSeconds([d |-> t.d, s |-> t.s - (t.s % 60)], -60 * k) :
            k \in 0..ProbeMinutes} : ZLt(v, t)}

\* C13: whenever previous_from(S, now) returns Some(p), p is the most recent
\* occurrence strictly before now, for any seconds value of now: p < now, p
\* satisfies S, and no instant q with p < q < now satisfies S; checked for
\* the whole minutes q before now
C13_PreviousFromLatest ==
  (api = "previous" /\ result.kind = "Some") =>
    /\ ZLt(result.val, now)
    /\ matches(schedule, result.val) = OkBool(TRUE)
    /\ \A q \in ProbesBefore(now) :
         ZLt(result.val, q) => matches(schedule, q) # OkBool(TRUE)

\* C14: on a schedule with no except, during or until clause, if next_from
\* returned u then previous_from returns u on every instant at least a minute
\* after u that is not later than the occurrence that follows u
C14_PreviousUndoesNext ==
  (api = "symmetry" /\ matched # Idle) => matched = OkSome(result.val)

\* the days of the month a schedule names, and its times of day
DaysNamed(s) ==
  LET OfDate(d) == IF d.kind = "Named" THEN {d.day} ELSE {}
      OfSpec(g) == IF g.kind = "Single" THEN {g.day} ELSE {g.start, g.end}
      OfTarget(t) ==
        CASE t.kind = "Days" -> UNION {OfSpec(t.specs[i]) : i \in DOMAIN t.specs}
          [] t.kind \in {"Date", "DayOfMonth"} -> {t.day}
          [] OTHER -> {}
      OfExpr(e) ==
        CASE e.kind \in {"MonthRepeat", "YearRepeat"} -> OfTarget(e.target)
          [] e.kind = "SingleDate" -> OfDate(e.date)
          [] OTHER -> {}
  IN OfExpr(s.expr) \cup UNION {OfDate(s.except[i]) : i \in DOMAIN s.except}
       \cup (IF s.until.some THEN OfDate(s.until.val) ELSE {})

TimesNamed(s) ==
  IF s.expr.kind = "IntervalRepeat" THEN {s.expr.from, s.expr.to}
  ELSE {s.expr.times[i] : i \in DOMAIN s.expr.times}

\* the day ranges of a month target that run backwards
BackwardRanges(s) ==
  IF s.expr.kind = "MonthRepeat" /\ s.expr.target.kind = "Days"
  THEN {i \in DOMAIN s.expr.target.specs :
          /\ s.expr.target.specs[i].kind = "Range"
          /\ s.expr.target.specs[i].start > s.expr.target.specs[i].end}
  ELSE {}

\* C15: every schedule parse returns has its numeric fields in range: each
\* day of the month in 1..31, no day range that starts after it ends, each
\* hour at most 23 and each minute at most 59
C15_ParsedFieldsInRange ==
  api = "text" /\ result.kind = "Ok" =>
    /\ DaysNamed(result.schedule) \subseteq 1..31
    /\ BackwardRanges(result.schedule) = {}
    /\ \A t \in TimesNamed(result.schedule) : t.hour <= 23 /\ t.minute <= 59

\* C16: parse returns a schedule or an error on every input; it never panics
C16_ParseNeverPanics == api = "text" => result.kind # "Panic"

\* the parts of the five fields of a cron expression: a range `a-b` with an
\* integer a greater than an integer b, with or without a step, or a step
\* `/0`
BackwardOrStill(part) ==
  LET step == split_once(part, "/")
      Numbered(n) == n.some /\ n.val = 0
      Apart(a, b) == a.some /\ b.some /\ a.val > b.val
      Backward(range) ==
        /\ range.some
        /\ Apart(parse_number(range.before, 255), parse_number(range.after, 255))
  IN \/ step.some /\ Numbered(parse_number(step.after, 255))
     \/ Backward(split_once(IF step.some THEN step.before ELSE part, "-"))

HasBackwardOrStill(cron) ==
  \E field \in {Split(cron, " ")[i] : i \in DOMAIN Split(cron, " ")} :
    \E part \in {Split(field, ",")[i] : i \in DOMAIN Split(field, ",")} :
      BackwardOrStill(part)

\* C18: from_cron returns a Cron error for every expression in which a field
\* holds an integer range whose start is greater than its end, with or
\* without a step, or a step of 0
C18_BackwardRangeRefused ==
  (api = "from_cron" /\ result # Idle /\ HasBackwardOrStill(input)) =>
    result = Error("Cron")

\* what to_cron can express: no except, until or during clause, and a
\* DayRepeat of interval 1 with one time, an IntervalRepeat over the whole
\* day with no day filter whose minutes divide the hour, or a MonthRepeat of
\* interval 1 with one time on listed days
Expressible(s) ==
  /\ s.except = <<>> /\ s.during = <<>> /\ ~s.until.some
  /\ \/ s.expr.kind = "DayRepeat" /\ s.expr.interval = 1 /\ Len(s.expr.times) = 1
     \/ /\ s.expr.kind = "IntervalRepeat"
        /\ s.expr.from = TimeOfDay(0, 0) /\ s.expr.to = TimeOfDay(23, 59)
        /\ ~s.expr.day_filter.some
        /\ s.expr.unit = "Minutes" => 60 % s.expr.interval = 0
     \/ /\ s.expr.kind = "MonthRepeat" /\ s.expr.interval = 1
        /\ Len(s.expr.times) = 1 /\ s.expr.target.kind = "Days"

\* C19: to_cron succeeds exactly on the expressible schedules, and returns a
\* Cron error on every other one
C19_ToCronRefusesTheRest ==
  (api = "cron" /\ items # <<>>) =>
    /\ items[1].kind = "Ok" <=> Expressible(schedule)
    /\ items[1].kind # "Ok" => items[1] = Error("Cron")

\* to_cron refused `every 7 min from 00:00 to 23:59`, whole day, no filter,
\* no clause: 7 does not divide 60
C19_Witness ==
  /\ api = "cron" /\ items # <<>> /\ items[1] = Error("Cron")
  /\ schedule.expr.kind = "IntervalRepeat" /\ schedule.expr.unit = "Minutes"
  /\ 60 % schedule.expr.interval # 0
  /\ Expressible([schedule EXCEPT !.expr.interval = 1])

\* the zones the host's system zone may be
HostZones == {"UTC", NewYork}

\* C20: a schedule with no timezone is evaluated in the host's system zone:
\* next_from returns what it returns for the same schedule with the host's
\* zone written out, whatever the host's zone is
C20_NoZoneIsSystemZone ==
  (api = "query" /\ ~schedule.timezone.some /\ result # Idle) =>
    \A host \in HostZones :
      result = next_from([schedule EXCEPT !.timezone = Some(host)], now)

\* C17: next_from, previous_from and matches never panic on a schedule that
\* from_cron produced: each returns a value or an error
C17_EvalNeverPanics ==
  (api \in {"cron", "from_cron"} /\ matched # Idle) => matched # Panic

\* C21: occurrences(from) and next_n_from skip no occurrence: the first item is
\* what next_from returns on `from`, and each later item is what next_from
\* returns on the item before it
C21_SkipsNoOccurrence ==
  api \in {"occurrences", "next_n_from"} =>
    /\ items # <<>> => items[1] = next_from(schedule, now)
    /\ \A i \in 1..(Len(items) - 1) :
         items[i].kind = "Some" => items[i + 1] = next_from(schedule, items[i].val)


\* a schedule is looked ahead over HorizonDays days
HorizonDays == 40

\* the minutes of the hour on which the schedules queried can fire
ProbeMinutesOfHour == {0, 30, 45, 59}

\* the instants looked at after t: the probed minutes of every hour of the
\* HorizonDays days from the day of t, and of the days from the anchor when
\* the schedule has one
Horizon(s, t) ==
  LET From(d) == {[d |-> d + k, s |-> 3600 * h + 60 * m] :
                    k \in 0..(HorizonDays - 1), h \in 0..23, m \in ProbeMinutesOfHour}
  IN {v \in From(t.d) \cup (IF s.anchor.some THEN From(s.anchor.val) ELSE {}) : ZLt(t, v)}

\* C22: next_from(S, now) returns Ok(None) only when no instant later than now
\* satisfies S; checked on the instants of the horizon
C22_NoneOnlyWhenExhausted ==
  (api = "query" /\ result.kind = "None") =>
    \A v \in Horizon(schedule, now) : matches(schedule, v) # OkBool(TRUE)


\* ---- matches on an instant, then next_from one minute before it

\* the seconds of the (UTC) day on which the clocks of the schedules queried
\* fire: 00:30, 09:00, 09:45 and 23:59 UTC, and 01:45 and 02:30 New York time
\* under either offset
FiringSeconds ==
  {30 * 60, 5 * 3600 + 45 * 60, 6 * 3600 + 30 * 60, 6 * 3600 + 45 * 60,
   7 * 3600 + 30 * 60, 9 * 3600, 9 * 3600 + 45 * 60, 23 * 3600 + 59 * 60}

\* Saturday 2026-10-31, Sunday 2026-11-01 (the fall-back) and Sunday
\* 2026-03-08 (the spring-forward)
FiringDays == {BaseDate + 1, BaseDate + 2, GapEve + 1}

InitAccept ==
  /\ schedule \in Schedules
  /\ to \in {[d |-> d, s |-> sec] : d \in FiringDays, sec \in FiringSeconds}
  /\ now = AddSeconds(to, -60)
  /\ result = Idle
  /\ matched = Idle
  /\ api = "accept"
  /\ current = now
  /\ items = <<>>
  /\ pulls = 0
  /\ input = <<>>

\* Schedule::matches on the instant u
Accepts ==
  /\ matched = Idle
  /\ matched' = matches(schedule, to)
  /\ UNCHANGED <<schedule, now, to, result, api, current, items, pulls, input>>

\* Schedule::next_from one minute before an instant matches accepted
NextFromBefore ==
  /\ matched = OkBool(TRUE)
  /\ result = Idle
  /\ result' = next_from(schedule, now)
  /\ UNCHANGED <<schedule, now, to, matched, api, current, items, pulls, input>>

NextAccept == Accepts \/ NextFromBefore

SpecAccept == InitAccept /\ [][NextAccept]_vars

\* C23: matches accepts only real occurrences: when matches(S, u) is true for
\* a whole-minute instant u, next_from(S, u minus one minute) returns Some(u)
C23_MatchesOnlyOccurrences ==
  (api = "accept" /\ matched = OkBool(TRUE) /\ result # Idle) => result = OkSome(to)


\* the retry loop of next_from(s, t) ran RetryBudget iterations and every
\* candidate was rejected by `during` or `except`
Exhausted(s, t) ==
  LET Loop(tz, until_date) ==
        ~RetryRuns(s, tz, until_date, Running(t), RetryBudget, 1).done
      Until(tz, until_date) ==
        (s.until.some => until_date.some) /\ Loop(tz, until_date)
      In(tz) ==
        /\ tz.some
        /\ Until(tz.val, IF s.until.some
                         THEN resolve_until(s.until.val, LocalDate(tz.val, t))
                         ELSE None)
  IN In(resolve_tz(s.timezone))

\* C24: next_from terminates within its budget of RetryBudget candidates, and
\* when every one of them was rejected by `during` or `except` it returns
\* Ok(None) and not an error
C24_ExhaustionIsNone ==
  (api = "query" /\ result # Idle /\ result.kind # "Some" /\ Exhausted(schedule, now))
    => result = OkNone

\* C24 witness: `on feb 14 at 09:00 during mar` was queried, all RetryBudget
\* candidates were rejected and next_from returned Ok(None)
C24_Witness ==
  /\ api = "query"
  /\ schedule = Contradiction
  /\ Exhausted(schedule, now)
  /\ result = OkNone


\* the wall-clock minute of the day of an instant in the schedule's zone
WallMinute(s, z) == Local(ZoneOf(s), z).s \div 60

\* an instant on the grid of an IntervalRepeat: a whole minute of a day that
\* passes day_filter, at from + k * step and not after `to`
OnGrid(s, z) ==
  LET e == s.expr
      Within(m, from, step) ==
        /\ from <= m
        /\ m <= to_time(e.to) \div 60
        /\ (m - from) % step = 0
  IN /\ z.s % 60 = 0
     /\ e.day_filter.some => matches_day_filter(DateIn(s, z), e.day_filter.val)
     /\ Within(WallMinute(s, z), to_time(e.from) \div 60, StepMinutes(e.interval, e.unit))

\* a date the trailing clauses of the schedule rule out
RuledOut(s, date) ==
  \/ OnExceptedDate(s, date)
  \/ Len(s.during) > 0 /\ ~InDuring(s, date)

\* C25: for an IntervalRepeat every instant next_from returns is on the grid
\* (a day passing day_filter, wall-clock minute from + k * step, at most `to`),
\* and it is the first slot strictly after now: no whole minute between now
\* and it is on the grid on a date the clauses allow
C25_IntervalGrid ==
  (api = "query" /\ schedule.expr.kind = "IntervalRepeat" /\ result.kind = "Some") =>
    /\ OnGrid(schedule, result.val)
    /\ \A v \in Probes(now) :
         (ZLt(v, result.val) /\ OnGrid(schedule, v)) => RuledOut(schedule, DateIn(schedule, v))


\* C26: for a DayRepeat with interval N > 1 every instant next_from returns is
\* on a date whose day count from the anchor (1970-01-01 without one) is a
\* multiple of N and, when the day filter is not Every, on a weekday that
\* passes the filter
C26_AlignedAndFiltered ==
  LET e == schedule.expr
      anchor_date == IF schedule.anchor.some THEN schedule.anchor.val ELSE EPOCH_DATE
      Holds(date) ==
        /\ days_between(anchor_date, date) % e.interval = 0
        /\ e.days.kind # "Every" => matches_day_filter(date, e.days)
  IN (api = "query" /\ e.kind = "DayRepeat" /\ e.interval > 1 /\ result.kind = "Some")
       => Holds(DateIn(schedule, result.val))


\* C27: for a MonthRepeat with a Days target every instant next_from returns
\* lies on one of the listed days of the month: a month shorter than day d is
\* skipped for d, and d is not moved to the month's last day
C27_ShortMonthSkipped ==
  (/\ api = "query"
   /\ schedule.expr.kind = "MonthRepeat"
   /\ schedule.expr.target.kind = "Days"
   /\ result.kind = "Some")
    => DayOf(DateIn(schedule, result.val)) \in expand_days(schedule.expr.target)

\* C27 witness: `every month on the 31st` asked on 1 November returned
\* 31 December, passing over the 30 days of November
C27_Witness ==
  /\ api = "query"
  /\ schedule = OnThe31st
  /\ MonthOf(now.d) = 11
  /\ result = OkSome([d |-> DaysFromCivil(2026, 12, 31), s |-> 9 * 3600])


\* ---- nearest_weekday on every day number of every month of a few years

\* the calls range over NearestYears years, two of them before the year of
\* BaseDate, one of them a leap year
NearestYears == 4

\* the year, month, target day and direction of one call
NearestInputs ==
  {[year |-> YearOf(BaseDate) - 2 + k, month |-> m, target_day |-> d, direction |-> dir] :
     k \in 0..(NearestYears - 1), m \in 1..12, d \in 1..31,
     dir \in {None, Some("Next"), Some("Previous")}}

InitNearest ==
  /\ schedule = ScheduleNew(EveryDayAtNine)
  /\ now = [d |-> BaseDate, s |-> 0]
  /\ to = now
  /\ result = Idle
  /\ matched = Idle
  /\ api = "nearest_weekday"
  /\ current \in NearestInputs
  /\ items = <<>>
  /\ pulls = 0
  /\ input = <<>>

\* nearest_weekday(year, month, target_day, direction)
NearestWeekdayCall ==
  /\ api = "nearest_weekday"
  /\ result = Idle
  /\ result' = [kind |-> "Date",
                date |-> nearest_weekday(current.year, current.month,
                                         current.target_day, current.direction)]
  /\ UNCHANGED <<schedule, now, to, matched, api, current, items, pulls, input>>

NextNearest == NearestWeekdayCall

SpecNearest == InitNearest /\ [][NextNearest]_vars

\* C28: with no direction and a target day the month has, nearest_weekday
\* gives a Monday-to-Friday date of the same month: the target itself on a
\* weekday, the Friday before a Saturday (the Monday after, the 3rd, when the
\* target is the 1st), the Monday after a Sunday (the Friday before when the
\* target is the month's last day); a target day past the month's end gives
\* no date
C28_NearestWeekdayInMonth ==
  LET target == DaysFromCivil(current.year, current.month, current.target_day)
      Exists == current.target_day <= DaysInMonth(current.year, current.month)
      Right(r) ==
        /\ WeekdayOf(r) \in 1..5
        /\ YearOf(r) = current.year
        /\ MonthOf(r) = current.month
        /\ WeekdayOf(target) \in 1..5 => r = target
        /\ WeekdayOf(target) = 6 =>
             IF current.target_day = 1
             THEN WeekdayOf(r) = 1 /\ DayOf(r) = 3
             ELSE WeekdayOf(r) = 5 /\ r = target - 1
        /\ WeekdayOf(target) = 7 =>
             IF current.target_day = DaysInMonth(current.year, current.month)
             THEN WeekdayOf(r) = 5 /\ r = target - 2
             ELSE WeekdayOf(r) = 1 /\ r = target + 1
  IN (api = "nearest_weekday" /\ result # Idle /\ ~current.direction.some) =>
       IF Exists THEN result.date.some /\ Right(result.date.val)
       ELSE ~result.date.some

\* C28 witness: the target is Saturday the 1st (2026-08-01) and the result is
\* Monday the 3rd
C28_Witness ==
  /\ api = "nearest_weekday"
  /\ ~current.direction.some
  /\ current.target_day = 1
  /\ WeekdayOf(DaysFromCivil(current.year, current.month, 1)) = 6
  /\ result # Idle
  /\ result.date = Some(DaysFromCivil(current.year, current.month, 3))


\* C29: display loses no information: when parse returned S on the input,
\* parse on the text display wrote for S returns a Schedule structurally
\* equal to S
C29_DisplayRoundTrip ==
  (api = "text" /\ pulls = 2 /\ Len(items) = 1 /\ result # Idle) => result = parse(input)

\* the AST invariants of a Schedule: hours 0..23 and minutes 0..59, intervals
\* of at least 1, days of the month 1..31, windows with from <= to
WellFormed(s) ==
  LET e == s.expr
      Time(t) == t.hour \in 0..23 /\ t.minute \in 0..59
      Times == \A i \in 1..Len(e.times) : Time(e.times[i])
      DaySpec(d) ==
        IF d.kind = "Single" THEN d.day \in 1..31
        ELSE d.start \in 1..31 /\ d.end \in 1..31
      Target(g) ==
        CASE g.kind = "Days" -> \A i \in 1..Len(g.specs) : DaySpec(g.specs[i])
          [] g.kind = "NearestWeekday" -> g.day \in 1..31
          [] OTHER -> TRUE
  IN CASE e.kind = "IntervalRepeat" ->
            /\ e.interval >= 1
            /\ Time(e.from)
            /\ Time(e.to)
            /\ to_time(e.from) <= to_time(e.to)
       [] e.kind = "MonthRepeat" -> e.interval >= 1 /\ Times /\ Target(e.target)
       [] e.kind = "SingleDate" -> Times
       [] OTHER -> e.interval >= 1 /\ Times

\* C30: every Schedule from_cron returns satisfies the AST invariants; a
\* field value outside its range yields a Cron error instead
C30_FromCronWellFormed ==
  (api = "from_cron" /\ result.kind = "Ok") => WellFormed(result.schedule)

=============================================================================
